---- MODULE Spec2Model ----
(***************************************************************************)
(* Serving pipeline of the tiled-ai-tagger server: the result cache        *)
(* (cache_manager.py), the sliding-window rate limiter (rate_limiter.py),  *)
(* the batch scheduler (ml/model_manager.py, ml/tile_tagger.py) and the    *)
(* analysis sessions kept by the HTTP handlers (main.py).                  *)
(*                                                                         *)
(* Time is counted in ticks; one second is TicksPerSec ticks, so that the  *)
(* truncation to whole seconds in the limiter is not the identity.         *)
(*                                                                         *)
(* A background run (process_tileset) is a sequence of steps, one per      *)
(* poll of the cancel flag and per scoring call; requests of other         *)
(* clients and other runs may be served between any two of its steps,      *)
(* which includes every schedule of the server's event loop.               *)
(***************************************************************************)
EXTENDS Integers, Sequences, FiniteSets, TLC

\* ------------------------------------------------------------------ bounds
TicksPerSec == 2
CacheTTL == 1        \* CACHE_TTL, scaled down to ticks
MaxCacheSize == 2    \* largest MAX_CACHE_SIZE explored (0 .. MaxCacheSize)
CacheMaxNow == 2     \* last tick of the clock in the cache specification
MaxWindow == 1       \* RATE_LIMIT_WINDOW, in seconds, scaled down
MaxQuota == 2        \* largest RATE_LIMIT_MAX_REQUESTS explored (0 .. MaxQuota)
LimMaxNow == 4       \* last tick of the clock in the limiter specification
ThreadsMaxNow == 1   \* last tick of the clock with checks running in threads
MaxImages == 3       \* largest number of images in one submission
MaxScore == 10       \* largest score, in tenths
MaxBatchImages == 10 \* largest input of a direct analyze_batch call
MaxChunkSize == 4    \* largest chunk_size of such a call (0 stands for None)
MaxBatchSize == 2    \* largest batch_size of such a call
ChunkSize == 2       \* analyze_tileset's chunk_size (100), scaled down
BatchSize == 1       \* analyze_tileset's batch_size (16), scaled down

NoValue == "None"
NoKey == <<"none", <<>>>>
CacheValues == {"v1", "v2"}
\* one more content than the cache can hold
Contents == 1 .. (MaxCacheSize + 1)
Clients == {"a", "b"}
NoClient == "none"
Tasks == {"t1", "t2"}
NoTask == "none"
\* tile ids passed to the single-tile analysis ("unknown" when none is given)
TileIdArgs == {"unknown", "x"}
\* contents uploaded to the single-tile analysis
TileContents == {1}

VARIABLES
    now,             \* time.time(), in ticks
    cache,           \* CacheManager.cache: OrderedDict, oldest entry first
    enable_cache,    \* CacheManager.enable_cache
    max_cache_size,  \* CacheManager.max_cache_size
    cache_last,      \* the last cache call and what it returned (observation)
    recency,         \* observation: keys present, least recently used first
    written,         \* observation: key -> time and value of its last write
    held,            \* the first dict analyze_tile returned, as its caller holds it
    requests,        \* RateLimiter.requests: client -> timestamps, oldest first
    max_requests,    \* RateLimiter.max_requests
    rl_last,         \* the last check and what it returned (observation)
    admitted,        \* observation: client -> every timestamp a check was allowed at
    lastFull,        \* observation: client -> instant of its last exhausted burst
    chk,             \* thread -> the frame of its check_rate_limit call
    analysis_progress, \* main.analysis_progress: task_id -> session
    cancel_requested,  \* ModelManager._cancel_requested (one per server)
    run,             \* task_id -> the frame of its process_tileset run
    cancelApplied,   \* observation: sessions cancel set to cancelled
    cancelEver,      \* observation: cancel_analysis() was called at some point
    scoreFailed,     \* observation: sessions whose scoring call raised
    tg_in,           \* a call of TagManager.process_predictions: its arguments
    tg_out,          \* what that call returned, once it has been made
    pl_tiles,        \* plugin: tile handle -> the tile object behind it
    pl_cache,        \* plugin: TileTagger._prediction_cache, str(id(tile)) -> tags
    pl_last,         \* plugin: the last analyze_tile call and its outcome (observation)
    pl_seen,         \* plugin: content -> tags its first analysis returned (observation)
    qy_in,           \* a query over tags (similarity, statistics): its arguments
    qy_out           \* what the query returned, once it has been made

\* the observations of cache calls are kept in the cache specification only
cacheObs == <<cache_last, recency, written>>
cacheVars == <<cache, enable_cache, max_cache_size, cacheObs, held>>
limVars == <<requests, max_requests, rl_last, admitted, lastFull, chk>>
sessVars == <<analysis_progress, cancel_requested, run, cancelApplied, cancelEver, scoreFailed>>
tagVars == <<tg_in, tg_out>>
pluginVars == <<pl_tiles, pl_cache, pl_last, pl_seen>>
queryVars == <<qy_in, qy_out>>
vars == <<now, cacheVars, limVars, sessVars, tagVars, pluginVars, queryVars>>

\* no dict returned yet; cached: the dict the caller holds is the object
\* stored in the cache under key
NoHeld == [set |-> FALSE, key |-> NoKey, cached |-> FALSE,
           returned |-> [tile_id |-> "none", tags |-> <<>>],
           current |-> [tile_id |-> "none", tags |-> <<>>]]

\* ------------------------------------------------ sessions before any request
\* the frame of one background run: the arguments of the call (images,
\* chunk_size, batch_size; chunk_size 0 stands for None), the locals of
\* analyze_batch, _process_chunk and analyze_tileset, and two observations:
\* progress and totals, the two arguments of every call of the progress
\* callback, emitted, the size of every chunk analyze_batch yielded, and
\* seen, set when _process_chunk finds the cancel flag set, with the number
\* of callback calls and the session's processed counter at that moment
NoFrame == [pc |-> "none", images |-> <<>>, chunk_size |-> 0, batch_size |-> 0,
            chunk_start |-> 0, i |-> 0, chunk_predictions |-> <<>>,
            all_predictions |-> <<>>, processed |-> 0,
            progress |-> <<>>, totals |-> <<>>, emitted |-> <<>>,
            seen |-> [flag |-> FALSE, calls |-> 0, processed |-> 0]]

SessionsIdle ==
    /\ analysis_progress = <<>>
    /\ cancel_requested = FALSE
    /\ run = [t \in Tasks |-> NoFrame]
    /\ cancelApplied = {}
    /\ cancelEver = FALSE
    /\ scoreFailed = {}

\* ----------------------------------------------------------------- TagManager
\* scores are counted in tenths: 5 is 0.5
CONFIDENCE_THRESHOLD == 5
\* TagManager.base_categories, in insertion order
base_categories ==
    << [category |-> "terrain", subcategories |-> <<"ground", "water", "wall">>],
       [category |-> "object", subcategories |-> <<"tree", "rock", "building">>],
       [category |-> "attribute", subcategories |-> <<"walkable", "solid", "decorative">>] >>

\* a tag name 'category.subcategory' is kept as the pair it is split into
RECURSIVE CreateTagList(_)
CreateTagList(cats) ==
    IF cats = <<>> THEN <<>>
    ELSE [i \in 1 .. Len(cats[1].subcategories) |->
             <<cats[1].category, cats[1].subcategories[i]>>] \o CreateTagList(Tail(cats))
\* TagManager.tag_list
tag_list == CreateTagList(base_categories)

\* max(predictions)
SeqMax(p) == CHOOSE m \in {p[i] : i \in 1 .. Len(p)} : \A i \in 1 .. Len(p) : p[i] <= m
\* list.index(x): the first position holding x
FirstIndexOf(p, x) == CHOOSE i \in 1 .. Len(p) : p[i] = x /\ \A j \in 1 .. (i - 1) : p[j] # x
\* the tag dict built for index idx (1-based here); float() keeps the value
TagAt(vocab, idx, confidence) ==
    [category |-> vocab[idx][1], subcategory |-> vocab[idx][2], confidence |-> confidence]

\* the loop over enumerate(predictions), from index idx on
RECURSIVE AboveThreshold(_, _, _, _)
AboveThreshold(p, threshold, vocab, idx) ==
    IF idx > Len(p) THEN <<>>
    ELSE (IF p[idx] > threshold THEN <<TagAt(vocab, idx, p[idx])>> ELSE <<>>)
         \o AboveThreshold(p, threshold, vocab, idx + 1)

\* variant: the fallback applies whenever no score exceeds the threshold
FallbackAlways(tags, mx, threshold) == tags = <<>>
\* not tags and max(predictions) > threshold / 2
FallbackApplies(tags, mx, threshold) == tags = <<>> /\ 2 * mx > threshold

\* TagManager.process_predictions on a score vector held in a container of
\* the given kind: a Python list, or the numpy array the model manager
\* returns, which has no index() method, so the fallback raises on it
process_predictions(predictions, threshold, vocab, kind) ==
    LET tags == AboveThreshold(predictions, threshold, vocab, 1)
        mx == SeqMax(predictions)
    IN  IF FallbackApplies(tags, mx, threshold)
        THEN IF kind = "ndarray"
             THEN [tags |-> <<>>, raised |-> "AttributeError"]
             ELSE [tags |-> <<TagAt(vocab, FirstIndexOf(predictions, mx), mx)>>,
                   raised |-> NoValue]
        ELSE [tags |-> tags, raised |-> NoValue]

\* the vocabularies a call is made with: the manager's own tag list, and the
\* two-entry vocabulary of the worked scenario
ScenarioVocabulary == << <<"terrain", "water">>, <<"terrain", "grass">> >>
Vocabularies == {tag_list, ScenarioVocabulary}
\* score vectors: every vector in tenths over the short vocabulary; over the
\* manager's nine tags three levels per score (low, middle, high)
ScoreLevels == {1, 3, 6}
ScoreVectors(vocab) ==
    IF Len(vocab) = Len(ScenarioVocabulary)
    THEN [1 .. Len(vocab) -> 0 .. MaxScore]
    ELSE [1 .. Len(vocab) -> ScoreLevels]
Thresholds == {CONFIDENCE_THRESHOLD - 1, CONFIDENCE_THRESHOLD}
ContainerKinds == {"list", "ndarray"}

NoCall == [scores |-> <<>>, threshold |-> 0, vocab |-> <<>>, kind |-> "none"]
NoResult == [done |-> FALSE, tags |-> <<>>, raised |-> NoValue]
TagsIdle == tg_in = NoCall /\ tg_out = NoResult

\* a call is chosen, then made
Assign ==
    /\ ~tg_out.done
    /\ LET r == process_predictions(tg_in.scores, tg_in.threshold, tg_in.vocab, tg_in.kind)
       IN  tg_out' = [done |-> TRUE, tags |-> r.tags, raised |-> r.raised]
    /\ UNCHANGED <<now, cacheVars, limVars, sessVars, tg_in, queryVars, pluginVars>>

\* ------------------------------------------------- plugin (src/tile_tagger)
\* the tile objects the editor hands to the plugin, the addresses id() can
\* give them, and the image contents they carry
Handles == {"h1", "h2"}
Addresses == {"0x1", "0x2"}
PluginContents == {1, 2}
\* the default floor of _get_relevant_tags and its ceiling, in tenths
PluginThreshold == 3
AdaptiveCap == 8

\* TileTagger.base_categories of the plugin, in insertion order
plugin_base_categories ==
    << [category |-> "terrain", subcategories |->
            <<"ground", "water", "vegetation", "mountain", "road",
              "wall", "floor", "ceiling", "platform">>],
       [category |-> "material", subcategories |->
            <<"dirt", "grass", "stone", "wood", "metal", "sand",
              "snow", "ice", "crystal", "brick", "concrete">>],
       [category |-> "object", subcategories |->
            <<"tree", "rock", "bush", "flower", "building", "decoration",
              "furniture", "container", "door", "window", "fence">>],
       [category |-> "visual", subcategories |->
            <<"light", "dark", "colorful", "plain", "detailed", "simple",
              "natural", "artificial", "damaged", "pristine">>],
       [category |-> "attribute", subcategories |->
            <<"solid", "walkable", "climbable", "dangerous", "interactive",
              "collectible", "decorative", "animated">>] >>
\* TileTagger.tag_list of the plugin
plugin_tag_list == CreateTagList(plugin_base_categories)

RECURSIVE SeqSum(_)
SeqSum(p) == IF p = <<>> THEN 0 ELSE Head(p) + SeqSum(Tail(p))

\* conf > adaptive_threshold, where adaptive_threshold is
\* min(max(mean + std, threshold), 0.8) with the population deviation; in
\* exact arithmetic, all terms multiplied by n = len(pred_values):
\* conf > mean + std  iff  n*conf - S > 0 and n*(n*conf - S)^2 > sum (n*x - S)^2
ExceedsAdaptive(conf, p, threshold) ==
    LET n == Len(p)
        S == SeqSum(p)
        d == n * conf - S
        sq == SeqSum([i \in 1 .. n |-> (n * p[i] - S) * (n * p[i] - S)])
    IN  \/ (d > 0 /\ n * d * d > sq /\ conf > threshold)
        \/ conf > AdaptiveCap

RECURSIVE AboveAdaptive(_, _, _, _)
AboveAdaptive(p, threshold, vocab, idx) ==
    IF idx > Len(p) THEN <<>>
    ELSE (IF ExceedsAdaptive(p[idx], p, threshold)
          THEN <<TagAt(vocab, idx, p[idx])>> ELSE <<>>)
         \o AboveAdaptive(p, threshold, vocab, idx + 1)

\* TileTagger._get_relevant_tags (pred_values is predictions.tolist())
GetRelevantTags(predictions, threshold, vocab) ==
    LET tags == AboveAdaptive(predictions, threshold, vocab, 1)
        mx == SeqMax(predictions)
    IN  IF tags = <<>> /\ mx > threshold
        THEN <<TagAt(vocab, FirstIndexOf(predictions, mx), mx)>>
        ELSE tags

\* the plugin's model: one score per plugin tag, decided by the content
PluginPredict(c) ==
    [i \in 1 .. Len(plugin_tag_list) |->
        IF c = 1 THEN (IF i = 2 THEN 9 ELSE 1)
        ELSE IF c = 2 THEN (IF i \in {10, 21} THEN 6 ELSE 2)
        ELSE 1]

\* the formatted tags in reverse order
FormatTagsReversed(tags) ==
    [k \in 1 .. Len(tags) |->
        [category |-> tags[Len(tags) + 1 - k].category,
         subcategory |-> tags[Len(tags) + 1 - k].subcategory,
         confidence |-> tags[Len(tags) + 1 - k].confidence,
         full_tag |-> <<tags[Len(tags) + 1 - k].category, tags[Len(tags) + 1 - k].subcategory>>]]
\* TagManager.add_tags of the plugin: what it stores in the ai_tags property
FormatTags(tags) ==
    [k \in 1 .. Len(tags) |->
        [category |-> tags[k].category, subcategory |-> tags[k].subcategory,
         confidence |-> tags[k].confidence,
         full_tag |-> <<tags[k].category, tags[k].subcategory>>]]

\* json.dumps / json.loads on a list of tag dicts (strings and floats only):
\* the text holds the list, and loading it gives the list back
JsonDumps(x) == [set |-> TRUE, json |-> x]
JsonLoads(text) == text.json
\* tile.property(name) of a tile that has no such property
NoProperty == [set |-> FALSE]
\* TagManager.add_tags of the plugin: the new value of the ai_tags property
add_tags(tags) == JsonDumps(FormatTags(tags))
\* TagManager.get_tags of the plugin, from the tile's ai_tags property
\* (NoProperty when the tile has none)
get_tags(ai_tags) == IF ~ai_tags.set THEN <<>> ELSE JsonLoads(ai_tags)
\* TagManager.remove_tags of the plugin: the new value of the property;
\* every says categories is None
remove_tags(ai_tags, every, categories) ==
    IF every THEN NoProperty
    ELSE LET updated_tags == SelectSeq(get_tags(ai_tags),
                                       LAMBDA tag : tag.category \notin categories)
         IN  IF updated_tags # <<>> THEN JsonDumps(updated_tags) ELSE NoProperty

NoTile == [alive |-> FALSE, addr |-> "none", content |-> 0, ai_tags |-> NoProperty]
NoAnalysis == [op |-> "none", handle |-> "none", content |-> 0, scored |-> FALSE, tags |-> <<>>,
               seen |-> FALSE, first |-> NoValue, stored |-> NoProperty]
PluginIdle ==
    /\ pl_tiles = [h \in Handles |-> NoTile]
    /\ pl_cache = <<>>
    /\ pl_last = NoAnalysis
    /\ pl_seen = [c \in PluginContents |-> NoValue]

\* ------------------------------------------------------- queries over tags
NoQuery == [op |-> "none"]
NoAnswer == [done |-> FALSE]
QueryIdle == qy_in = NoQuery /\ qy_out = NoAnswer

\* ------------------------------------------------------------- CacheManager
cache_ttl == CacheTTL

\* sha256 over the PNG bytes: one key per image content
GenerateKey(c) == <<"img", <<c>>>>
\* sha256 over the concatenated per-image digests
GenerateBatchKey(cs) == <<"batch", cs>>

KeysOf(c) == {c[i].key : i \in 1 .. Len(c)}
KeyOrder(c) == [i \in 1 .. Len(c) |-> c[i].key]
IndexOf(c, k) == CHOOSE i \in 1 .. Len(c) : c[i].key = k
EntryOf(c, k) == c[IndexOf(c, k)]
DelKey(c, k) == SelectSeq(c, LAMBDA e : e.key # k)
\* variant: an entry expires already at age TTL
ExpiredAtTTL(e, t) == t - e.timestamp >= cache_ttl
\* time.time() - entry['timestamp'] > self.cache_ttl
Expired(e, t) == t - e.timestamp > cache_ttl

\* variant: a hit leaves the entry where it is
MoveNowhere(c, k) == c
\* OrderedDict.move_to_end(key)
MoveToEnd(c, k) == Append(DelKey(c, k), EntryOf(c, k))

\* CacheManager.get: the cache after the call, and what it returns
CacheManager_get(c, k, t, en) ==
    IF ~en \/ k \notin KeysOf(c)
    THEN [cache |-> c, hit |-> FALSE, value |-> NoValue]
    ELSE IF Expired(EntryOf(c, k), t)
         THEN [cache |-> DelKey(c, k), hit |-> FALSE, value |-> NoValue]
         ELSE [cache |-> MoveToEnd(c, k), hit |-> TRUE, value |-> EntryOf(c, k).value]

\* variant: nothing is evicted
PopNothing(c) == c
\* OrderedDict.popitem(last=False) of a non-empty mapping
PopOldest(c) == Tail(c)

\* variant: a key already present keeps its old entry
StoreEntryKeep(c, k, v, t) ==
    IF k \in KeysOf(c) THEN c ELSE Append(c, [key |-> k, value |-> v, timestamp |-> t])
\* self.cache[key] = {...}: in place for a key present, appended otherwise
StoreEntry(c, k, v, t) ==
    LET e == [key |-> k, value |-> v, timestamp |-> t]
    IN  IF k \in KeysOf(c) THEN [c EXCEPT ![IndexOf(c, k)] = e] ELSE Append(c, e)

\* variant: set stores also when caching is disabled
CacheManager_set_always(c, k, v, t, en, max) ==
    IF Len(c) >= max
    THEN IF Len(c) = 0
         THEN [cache |-> c, raised |-> TRUE, popped |-> NoKey, appended |-> FALSE]
         ELSE [cache |-> StoreEntry(PopOldest(c), k, v, t), raised |-> FALSE,
               popped |-> c[1].key, appended |-> k \notin KeysOf(PopOldest(c))]
    ELSE [cache |-> StoreEntry(c, k, v, t), raised |-> FALSE,
          popped |-> NoKey, appended |-> k \notin KeysOf(c)]
\* CacheManager.set: the cache after the call; raised: popitem on an empty
\* mapping raises KeyError before anything is stored
\* popped: the key popitem removed; appended: the assignment created an entry
CacheManager_set(c, k, v, t, en, max) ==
    IF ~en THEN [cache |-> c, raised |-> FALSE, popped |-> NoKey, appended |-> FALSE]
    ELSE IF Len(c) >= max
         THEN IF Len(c) = 0
              THEN [cache |-> c, raised |-> TRUE, popped |-> NoKey, appended |-> FALSE]
              ELSE [cache |-> StoreEntry(PopOldest(c), k, v, t), raised |-> FALSE,
                    popped |-> c[1].key, appended |-> k \notin KeysOf(PopOldest(c))]
         ELSE [cache |-> StoreEntry(c, k, v, t), raised |-> FALSE,
               popped |-> NoKey, appended |-> k \notin KeysOf(c)]

\* CacheManager.remove_expired
CacheManager_remove_expired(c, t) == SelectSeq(c, LAMBDA e : ~Expired(e, t))

\* CacheManager.clear
CacheManager_clear(c) == <<>>

\* ---- observations kept beside the cache (they never influence it)
\* keys in order of last use, where a use is the insertion of an entry into
\* the mapping or a get that hits it; keys no longer present are dropped
Touch(r, k) == Append(SelectSeq(r, LAMBDA x : x # k), k)
Restrict(r, ks) == SelectSeq(r, LAMBDA x : x \in ks)
WrittenRestrict(w, ks) == [k \in (DOMAIN w) \cap ks |-> w[k]]

\* -------------------------------------------------------------- RateLimiter
\* self.window_size, in ticks
window_size == MaxWindow * TicksPerSec

\* int(x) of a duration of n ticks: whole seconds, truncated towards zero
IntSeconds(n) == IF n >= 0 THEN n \div TicksPerSec ELSE -((-n) \div TicksPerSec)

\* variant: a timestamp exactly one window old is still counted
InWindowClosed(ts, t) == ts >= t - window_size
\* ts > window_start, with window_start = current_time - self.window_size
InWindow(ts, t) == ts > t - window_size

\* variant: one request more than the quota passes
OverQuotaStrict(count, max) == count > max
\* request_count >= self.max_requests
OverQuota(count, max) == count >= max

\* variant: the lists of all clients are pruned
clean_every_client(reqs, c, t) ==
    [d \in DOMAIN reqs |-> SelectSeq(reqs[d], LAMBDA ts : InWindow(ts, t))]
\* RateLimiter._clean_old_requests
clean_old_requests(reqs, c, t) ==
    IF c \in DOMAIN reqs
    THEN [reqs EXCEPT ![c] = SelectSeq(@, LAMBDA ts : InWindow(ts, t))]
    ELSE reqs

\* variant: a refused check is recorded like an accepted one
DeniedRequestsRecorded(known, c, t) == [known EXCEPT ![c] = Append(@, t)]
\* the refusing branch returns before the append: the list stays as cleaned
DeniedRequests(known, c, t) == known

\* RateLimiter.check_rate_limit; both clock reads of one check fall on the
\* same tick. raised: IndexError from self.requests[client_id][0] on an
\* empty list
check_rate_limit(reqs, c, t, max) ==
    LET cleaned == clean_old_requests(reqs, c, t)
        known == IF c \in DOMAIN cleaned THEN cleaned ELSE cleaned @@ (c :> <<>>)
        request_count == Len(known[c])
    IN  IF OverQuota(request_count, max)
        THEN IF request_count = 0
             THEN [requests |-> known, allowed |-> FALSE, retry_after |-> 0, raised |-> TRUE]
             ELSE [requests |-> DeniedRequests(known, c, t), allowed |-> FALSE,
                   raised |-> FALSE,
                   retry_after |-> IntSeconds(known[c][1] + window_size - t)]
        ELSE [requests |-> [known EXCEPT ![c] = Append(@, t)],
              allowed |-> TRUE, retry_after |-> 0, raised |-> FALSE]

\* ---- observations kept beside the limiter
\* how many checks of client c were allowed at instants in (t - W, t]
AdmittedIn(c, t) ==
    Cardinality({i \in 1 .. Len(admitted[c]) :
                    t - window_size < admitted[c][i] /\ admitted[c][i] <= t})

\* the threads that call check_rate_limit, and the frame of a thread that is
\* not inside a call
Threads == {"w1", "w2"}
NoCheck == [pc |-> "idle", client |-> NoClient, current_time |-> 0,
            allowed |-> FALSE, raised |-> FALSE]

LimiterIdle ==
    /\ requests = <<>>
    /\ max_requests = MaxQuota
    /\ rl_last = [client |-> NoClient, at |-> 0, allowed |-> FALSE, retry_after |-> 0,
                  raised |-> FALSE, n |-> 0, fresh |-> FALSE, waited |-> FALSE]
    /\ admitted = [c \in Clients |-> <<>>]
    /\ lastFull = [c \in Clients |-> -1]
    /\ chk = [w \in Threads |-> NoCheck]

LimiterInit ==
    /\ now = 0
    /\ requests = <<>>
    /\ max_requests \in 0 .. MaxQuota
    /\ rl_last = [client |-> NoClient, at |-> 0, allowed |-> FALSE, retry_after |-> 0,
                  raised |-> FALSE, n |-> 0, fresh |-> FALSE, waited |-> FALSE]
    /\ admitted = [c \in Clients |-> <<>>]
    /\ lastFull = [c \in Clients |-> -1]
    /\ chk = [w \in Threads |-> NoCheck]

\* one request of client c passes the rate-limit dependency
Check(c) ==
    LET r == check_rate_limit(requests, c, now, max_requests)
        same == rl_last.client = c /\ rl_last.at = now
        \* position of this check among c's consecutive checks at this instant
        \* (counted up to two past the quota)
        n == IF ~same THEN 1
             ELSE IF rl_last.n < max_requests + 2 THEN rl_last.n + 1 ELSE rl_last.n
        \* the burst began with none of c's allowed checks inside the window
        fresh == IF same THEN rl_last.fresh ELSE AdmittedIn(c, now) = 0
        \* c's first allowed-or-denied check one window after its last
        \* exhausted burst, none of its checks allowed since that burst
        waited == /\ lastFull[c] >= 0 /\ now = lastFull[c] + window_size
                  /\ \A i \in 1 .. Len(admitted[c]) : admitted[c][i] <= lastFull[c]
    IN  /\ requests' = r.requests
        /\ rl_last' = [client |-> c, at |-> now, allowed |-> r.allowed,
                       retry_after |-> r.retry_after, raised |-> r.raised,
                       n |-> n, fresh |-> fresh,
                       waited |-> waited]
        /\ admitted' = IF r.allowed THEN [admitted EXCEPT ![c] = Append(@, now)]
                       ELSE admitted
        /\ lastFull' = IF fresh /\ n = max_requests + 1
                       THEN [lastFull EXCEPT ![c] = now] ELSE lastFull
        /\ UNCHANGED <<now, max_requests, chk, cacheVars, sessVars, tagVars, queryVars, pluginVars>>

LimiterTick ==
    /\ now < LimMaxNow
    /\ now' = now + 1
    /\ UNCHANGED <<limVars, cacheVars, sessVars, tagVars, queryVars, pluginVars>>

LimiterNext ==
    \/ \E c \in Clients : Check(c)
    \/ LimiterTick

\* ---- check_rate_limit called from several threads, statement by statement
\* client_id = request.client.host; current_time = time.time()
CheckEnter(w, c) ==
    /\ chk[w].pc = "idle"
    /\ chk' = [chk EXCEPT ![w] = [pc |-> "clean", client |-> c, current_time |-> now,
                                  allowed |-> FALSE, raised |-> FALSE]]
    /\ UNCHANGED <<now, requests, max_requests, rl_last, admitted, lastFull,
                   cacheVars, sessVars, tagVars, queryVars, pluginVars>>

\* self._clean_old_requests(client_id), then the empty list of a new client
CheckClean(w) ==
    /\ chk[w].pc = "clean"
    /\ LET c == chk[w].client
           cleaned == clean_old_requests(requests, c, now)
       IN  requests' = IF c \in DOMAIN cleaned THEN cleaned ELSE cleaned @@ (c :> <<>>)
    /\ chk' = [chk EXCEPT ![w].pc = "count"]
    /\ UNCHANGED <<now, max_requests, rl_last, admitted, lastFull,
                   cacheVars, sessVars, tagVars, queryVars, pluginVars>>

\* request_count = len(...); the refusing branch returns from here
CheckCount(w) ==
    /\ chk[w].pc = "count"
    /\ LET c == chk[w].client
           request_count == Len(requests[c])
       IN  chk' = IF OverQuota(request_count, max_requests)
                  THEN [chk EXCEPT ![w].pc = "idle", ![w].allowed = FALSE,
                                   ![w].raised = (request_count = 0)]
                  ELSE [chk EXCEPT ![w].pc = "record"]
    /\ UNCHANGED <<now, requests, max_requests, rl_last, admitted, lastFull,
                   cacheVars, sessVars, tagVars, queryVars, pluginVars>>

\* self.requests[client_id].append(current_time); return True, 0
CheckRecord(w) ==
    /\ chk[w].pc = "record"
    /\ LET c == chk[w].client
       IN  /\ requests' = [requests EXCEPT ![c] = Append(@, chk[w].current_time)]
           /\ admitted' = [admitted EXCEPT ![c] = Append(@, chk[w].current_time)]
    /\ chk' = [chk EXCEPT ![w].pc = "idle", ![w].allowed = TRUE]
    /\ UNCHANGED <<now, max_requests, rl_last, lastFull,
                   cacheVars, sessVars, tagVars, queryVars, pluginVars>>

\* the clock while threads are inside their checks
ThreadsTick ==
    /\ now < ThreadsMaxNow
    /\ now' = now + 1
    /\ UNCHANGED <<limVars, cacheVars, sessVars, tagVars, queryVars, pluginVars>>

ThreadsNext ==
    \/ \E w \in Threads, c \in Clients : CheckEnter(w, c)
    \/ \E w \in Threads : CheckClean(w)
    \/ \E w \in Threads : CheckCount(w)
    \/ \E w \in Threads : CheckRecord(w)
    \/ ThreadsTick

\* ------------------------------------------------------ cache: operations
\* what the last cache call was and what came back; present: the key was in
\* the mapping before the call; afterSet: the call before it was a set of the
\* same key that stored its value
CacheCall(op, k, v, ret, hit, raised, popped) ==
    [op |-> op, key |-> k, value |-> v, ret |-> ret, hit |-> hit, raised |-> raised,
     popped |-> popped, present |-> k \in KeysOf(cache),
     afterSet |-> cache_last.op = "set" /\ cache_last.key = k /\ ~cache_last.raised
                  /\ enable_cache,
     removed |-> {}]

CacheInit ==
    /\ now = 0
    /\ cache = <<>>
    /\ enable_cache \in BOOLEAN
    /\ max_cache_size \in 0 .. MaxCacheSize
    /\ cache_last = [op |-> "init", key |-> NoKey, value |-> NoValue, ret |-> NoValue,
                     hit |-> FALSE, raised |-> FALSE, popped |-> NoKey,
                     present |-> FALSE, afterSet |-> FALSE, removed |-> {}]
    /\ held = NoHeld
    /\ recency = <<>>
    /\ written = <<>>

Get(k) ==
    LET r == CacheManager_get(cache, k, now, enable_cache)
    IN  /\ cache' = r.cache
        /\ cache_last' = CacheCall("get", k, NoValue, r.value, r.hit, FALSE, NoKey)
        /\ recency' = IF r.hit THEN Touch(recency, k) ELSE Restrict(recency, KeysOf(r.cache))
        /\ written' = WrittenRestrict(written, KeysOf(r.cache))
        /\ UNCHANGED <<now, enable_cache, max_cache_size, held, limVars, sessVars, tagVars, queryVars, pluginVars>>

Set(k, v) ==
    LET r == CacheManager_set(cache, k, v, now, enable_cache, max_cache_size)
        stored == enable_cache /\ ~r.raised
    IN  /\ cache' = r.cache
        /\ cache_last' = CacheCall("set", k, v, NoValue, FALSE, r.raised, r.popped)
        /\ recency' = IF r.appended THEN Touch(Restrict(recency, KeysOf(r.cache)), k)
                      ELSE Restrict(recency, KeysOf(r.cache))
        /\ written' = IF stored
                      THEN [x \in (KeysOf(r.cache) \cap DOMAIN written) \cup {k} |->
                               IF x = k THEN [at |-> now, value |-> v] ELSE written[x]]
                      ELSE written
        /\ UNCHANGED <<now, enable_cache, max_cache_size, held, limVars, sessVars, tagVars, queryVars, pluginVars>>

RemoveExpired ==
    /\ cache' = CacheManager_remove_expired(cache, now)
    /\ cache_last' = [CacheCall("remove_expired", NoKey, NoValue, NoValue, FALSE, FALSE, NoKey)
                          EXCEPT !.removed = KeysOf(cache) \ KeysOf(cache')]
    /\ recency' = Restrict(recency, KeysOf(cache'))
    /\ written' = WrittenRestrict(written, KeysOf(cache'))
    /\ UNCHANGED <<now, enable_cache, max_cache_size, held, limVars, sessVars, tagVars, queryVars, pluginVars>>

Clear ==
    /\ cache' = CacheManager_clear(cache)
    /\ cache_last' = CacheCall("clear", NoKey, NoValue, NoValue, FALSE, FALSE, NoKey)
    /\ recency' = <<>>
    /\ written' = <<>>
    /\ UNCHANGED <<now, enable_cache, max_cache_size, held, limVars, sessVars, tagVars, queryVars, pluginVars>>

CacheTick ==
    /\ now < CacheMaxNow
    /\ now' = now + 1
    /\ UNCHANGED <<cacheVars, limVars, sessVars, tagVars, queryVars, pluginVars>>

CacheNext ==
    \/ \E c \in Contents : Get(GenerateKey(c))
    \/ \E c \in Contents, v \in CacheValues : Set(GenerateKey(c), v)
    \/ RemoveExpired
    \/ Clear
    \/ CacheTick

InitCache == CacheInit /\ LimiterIdle /\ SessionsIdle /\ TagsIdle /\ PluginIdle /\ QueryIdle
SpecCache == InitCache /\ [][CacheNext]_vars

\* the same cache, enabled, with room for every content: no set evicts
RoomyCacheInit ==
    /\ now = 0
    /\ cache = <<>>
    /\ enable_cache = TRUE
    /\ max_cache_size = Cardinality(Contents)
    /\ cache_last = [op |-> "init", key |-> NoKey, value |-> NoValue, ret |-> NoValue,
                     hit |-> FALSE, raised |-> FALSE, popped |-> NoKey,
                     present |-> FALSE, afterSet |-> FALSE, removed |-> {}]
    /\ held = NoHeld
    /\ recency = <<>>
    /\ written = <<>>
InitCacheRoomy == RoomyCacheInit /\ LimiterIdle /\ SessionsIdle /\ TagsIdle /\ PluginIdle /\ QueryIdle
SpecCacheRoomy == InitCacheRoomy /\ [][CacheNext]_vars

CacheIdle ==
    /\ cache = <<>>
    /\ enable_cache = TRUE
    /\ max_cache_size = MaxCacheSize
    /\ cache_last = [op |-> "init", key |-> NoKey, value |-> NoValue, ret |-> NoValue,
                     hit |-> FALSE, raised |-> FALSE, popped |-> NoKey,
                     present |-> FALSE, afterSet |-> FALSE, removed |-> {}]
    /\ held = NoHeld
    /\ recency = <<>>
    /\ written = <<>>

InitLimiter == LimiterInit /\ CacheIdle /\ SessionsIdle /\ TagsIdle /\ PluginIdle /\ QueryIdle
SpecLimiter == InitLimiter /\ [][LimiterNext]_vars
SpecLimiterThreads == InitLimiter /\ [][ThreadsNext]_vars

\* ------------------------------------------------ tag assignment: operations
TagsInit ==
    /\ now = 0 /\ CacheIdle /\ LimiterIdle /\ SessionsIdle /\ PluginIdle /\ QueryIdle
    /\ tg_out = NoResult
    /\ \E vocab \in Vocabularies, threshold \in Thresholds, kind \in ContainerKinds :
         \E scores \in ScoreVectors(vocab) :
            tg_in = [scores |-> scores, threshold |-> threshold, vocab |-> vocab,
                     kind |-> kind]
TagsNext == Assign
SpecTags == TagsInit /\ [][TagsNext]_vars

\* ------------------------------------------- scheduler and analysis sessions
Min(a, b) == IF a <= b THEN a ELSE b

\* seq[a:b] of Python, 0-based, end clipped to the length
Slice(q, a, b) == SubSeq(q, a + 1, Min(b, Len(q)))
\* seq[-k:] of Python for k >= 1
LastK(q, k) == IF Len(q) <= k THEN q ELSE SubSeq(q, Len(q) - k + 1, Len(q))

\* the i-th uploaded image (1-based), by content
ImageAt(i) == ((i - 1) % Cardinality(Contents)) + 1
\* the images of a submission of n tiles
ImagesOf(n) == [i \in 1 .. n |-> ImageAt(i)]
\* tile_ids built by start_tileset_analysis: tile_0, tile_1, ...
TileIdsOf(n) == [i \in 1 .. n |-> i - 1]

\* an image none of whose scores exceeds the threshold while the best one
\* exceeds half of it (a content of its own)
FaintImage == Cardinality(Contents) + 1
\* the image lists a client uploads: 1 .. MaxImages images, or the faint one
Uploads == {ImagesOf(n) : n \in 1 .. MaxImages} \cup {<<FaintImage>>}

\* str(e) of the exceptions the scoring service raises
ScoringErrors == {"out of memory", "bad input"}

\* the scoring service: one score vector (nine sigmoid outputs, a numpy row)
\* per image, decided by its content. Content 1 scores one tag high, content
\* 2 two tags, the faint image one tag between half the threshold and the
\* threshold, every other content all low.
Predict(c) ==
    [i \in 1 .. Len(tag_list) |->
        IF c = 1 THEN (IF i = 2 THEN 9 ELSE 1)
        ELSE IF c = 2 THEN (IF i \in {1, 8} THEN 6 ELSE 1)
        ELSE IF c = FaintImage THEN (IF i = 5 THEN 3 ELSE 1)
        ELSE 1]
\* tag_manager.process_predictions(pred) as the tagger calls it: default
\* threshold, the manager's tag list, the model's numpy row
ProcessPredictions(p) == process_predictions(p, CONFIDENCE_THRESHOLD, tag_list, "ndarray")

Total(t) == Len(run[t].images)
\* chunk = images[chunk_start:chunk_end] of the run of task t; the whole
\* input when chunk_size is None
ChunkOf(t) ==
    IF run[t].chunk_size = 0 THEN run[t].images
    ELSE Slice(run[t].images, run[t].chunk_start, run[t].chunk_start + run[t].chunk_size)
\* variant: the batch is the rest of the chunk from i on
BatchOfRest(t) == Slice(ChunkOf(t), run[t].i, Len(ChunkOf(t)))
\* batch = images[i:i + batch_size] within the chunk
BatchOf(t) == Slice(ChunkOf(t), run[t].i, run[t].i + run[t].batch_size)

\* images of a batch whose own result is in the cache and unexpired
CachedImages(imgs) ==
    {imgs[j] : j \in {x \in 1 .. Len(imgs) :
        /\ enable_cache /\ GenerateKey(imgs[x]) \in KeysOf(cache)
        /\ ~Expired(EntryOf(cache, GenerateKey(imgs[x])), now)}}

\* variant: the new session counts its images as processed already
SubmitProcessed(t, imgs) ==
    /\ t \notin DOMAIN analysis_progress
    /\ analysis_progress' = analysis_progress @@
            (t :> [processed |-> Len(imgs), total |-> Len(imgs), status |-> "processing",
                   results |-> <<>>, error |-> NoValue])
    /\ run' = [run EXCEPT ![t] = [NoFrame EXCEPT !.pc = "queued", !.images = imgs,
                                    !.chunk_size = ChunkSize, !.batch_size = BatchSize]]
    /\ UNCHANGED <<now, cacheVars, limVars, cancel_requested, cancelApplied, cancelEver, scoreFailed, tagVars, queryVars, pluginVars>>
\* start_tileset_analysis: a session under a fresh task id, the run queued
\* with the images; analyze_tileset will pass its chunk_size and batch_size
Submit(t, imgs) ==
    /\ t \notin DOMAIN analysis_progress
    /\ analysis_progress' = analysis_progress @@
            (t :> [processed |-> 0, total |-> Len(imgs), status |-> "processing",
                   results |-> <<>>, error |-> NoValue])
    /\ run' = [run EXCEPT ![t] = [NoFrame EXCEPT !.pc = "queued", !.images = imgs,
                                    !.chunk_size = ChunkSize, !.batch_size = BatchSize]]
    /\ UNCHANGED <<now, cacheVars, limVars, cancel_requested, cancelApplied, cancelEver, scoreFailed, tagVars, queryVars, pluginVars>>

\* process_tileset starts: analyze_tileset and analyze_batch run up to the
\* first sub-batch; analyze_batch clears the cancel flag on entry
StartRun(t) ==
    /\ run[t].pc = "queued"
    /\ cancel_requested' = FALSE
    /\ run' = [run EXCEPT ![t].pc = IF Total(t) = 0 THEN "finish" ELSE "sub"]
    /\ UNCHANGED <<now, cacheVars, limVars, analysis_progress, cancelApplied, cancelEver, scoreFailed, tagVars, queryVars, pluginVars>>

\* the frame of task t noting that it found the cancel flag set
Observing(t) ==
    [run[t] EXCEPT !.seen = [flag |-> TRUE, calls |-> Len(run[t].progress),
                             processed |-> analysis_progress[t].processed]]
\* variant: the flag is found set and the batch is sent to the model anyway
SubBatchBeginDeaf(t) ==
    /\ run[t].pc = "sub"
    /\ IF cancel_requested
       THEN run' = [run EXCEPT ![t] = [Observing(t) EXCEPT !.pc = "scoring"]]
       ELSE run' = [run EXCEPT ![t].pc = "scoring"]
    /\ UNCHANGED <<now, cacheVars, limVars, analysis_progress, cancel_requested, cancelApplied, cancelEver, scoreFailed, tagVars, queryVars, pluginVars>>
\* _process_chunk, top of the sub-batch loop: poll the flag, else send the
\* batch to the model
SubBatchBegin(t) ==
    /\ run[t].pc = "sub"
    /\ IF cancel_requested
       THEN run' = [run EXCEPT ![t] = [Observing(t) EXCEPT !.pc = "after"]]
       ELSE run' = [run EXCEPT ![t].pc = "scoring"]
    /\ UNCHANGED <<now, cacheVars, limVars, analysis_progress, cancel_requested, cancelApplied, cancelEver, scoreFailed, tagVars, queryVars, pluginVars>>

\* variant: the callback gets the count within the current chunk
ReportedInChunk(t, batch) == run[t].i + Len(batch)
\* what the progress callback is called with after a sub-batch:
\* progress_callback(chunk_start + p, total) with p = i + len(batch)
Reported(t, batch) == run[t].chunk_start + run[t].i + Len(batch)

\* the total the callback is called with: total_images through the wrapper
\* of the chunked path, else the `total` of _process_chunk
ReportedTotal(t) == IF run[t].chunk_size = 0 THEN Len(ChunkOf(t)) ELSE Total(t)

\* the number of parameters of the callback _process_chunk is handed:
\* analyze_batch's own progress_callback (processed, total) when chunk_size is
\* None, else the wrapper `lambda p: progress_callback(chunk_start + p, ...)`
CallbackParameters(chunk_size) == IF chunk_size = 0 THEN 2 ELSE 1
\* _process_chunk calls progress_callback(i + len(batch), total)
CallbackArguments == 2
\* str(e) of the TypeError a call with the wrong number of arguments raises
CallbackError == "<lambda>() takes 1 positional argument but 2 were given"

\* the model returns: predictions appended, then the progress callback. With
\* the callback's parameters matching the call it runs, and the loop goes to
\* the next index; otherwise the call raises TypeError, which leaves every
\* generator and is recorded by process_tileset
ScoreReturn(t) ==
    /\ run[t].pc = "scoring"
    /\ LET batch == BatchOf(t)
           i2 == run[t].i + run[t].batch_size
           reported == Reported(t, batch)
           scored == run[t].chunk_predictions \o [j \in 1 .. Len(batch) |-> Predict(batch[j])]
       IN  IF CallbackParameters(run[t].chunk_size) = CallbackArguments
           THEN /\ analysis_progress' = [analysis_progress EXCEPT ![t].processed = reported]
                /\ run' = [run EXCEPT
                         ![t].chunk_predictions = scored,
                         ![t].i = i2,
                         ![t].progress = Append(@, reported),
                         ![t].totals = Append(@, ReportedTotal(t)),
                         ![t].pc = IF i2 < Len(ChunkOf(t)) THEN "sub" ELSE "after"]
           ELSE /\ analysis_progress' = [analysis_progress EXCEPT
                         ![t].status = "error", ![t].error = CallbackError]
                /\ run' = [run EXCEPT ![t].chunk_predictions = scored, ![t].pc = "done"]
    /\ UNCHANGED <<now, cacheVars, limVars, cancel_requested, cancelApplied, cancelEver, scoreFailed, tagVars, queryVars, pluginVars>>

\* the model raises: the exception leaves every generator and process_tileset
\* records it
ScoreRaise(t, msg) ==
    /\ run[t].pc = "scoring"
    /\ analysis_progress' = [analysis_progress EXCEPT
            ![t].status = "error", ![t].error = msg]
    /\ run' = [run EXCEPT ![t].pc = "done"]
    /\ scoreFailed' = scoreFailed \cup {t}
    /\ UNCHANGED <<now, cacheVars, limVars, cancel_requested, cancelApplied, cancelEver, tagVars, queryVars, pluginVars>>

\* variant: every chunk is labelled from the first tile id on
ChunkResultsFromZero(t, preds) ==
    [j \in 1 .. Len(preds) |->
        [tile_id |-> TileIdsOf(Total(t))[j], tags |-> ProcessPredictions(preds[j]).tags]]
\* analyze_tileset: results of one yielded chunk, tile ids from `processed` on
ChunkResults(t, preds) ==
    [j \in 1 .. Len(preds) |->
        [tile_id |-> TileIdsOf(Total(t))[run[t].processed + j],
         tags |-> ProcessPredictions(preds[j]).tags]]
\* the exceptions process_predictions raises over the predictions of a chunk
TagErrors(preds) ==
    {ProcessPredictions(preds[j]).raised : j \in 1 .. Len(preds)} \ {NoValue}

\* analyze_batch after _process_chunk returned: break on the flag, else
\* yield the chunk; analyze_tileset turns it into results (an exception of
\* process_predictions ends the run like any exception) and caches them
\* under the batch key; process_tileset extends the session's results; the
\* generators resume up to the next sub-batch
AfterChunk(t) ==
    /\ run[t].pc = "after"
    /\ IF cancel_requested
       THEN /\ run' = [run EXCEPT ![t].pc = "finish"]
            /\ UNCHANGED <<analysis_progress, cache>>
       ELSE LET all == run[t].all_predictions \o run[t].chunk_predictions
                yielded == IF run[t].chunk_size = 0 THEN run[t].chunk_predictions
                           ELSE LastK(all, Len(ChunkOf(t)))
                chunk_results == ChunkResults(t, yielded)
                chunk_images == Slice(run[t].images, run[t].processed,
                                      run[t].processed + Len(yielded))
                key == GenerateBatchKey(chunk_images)
                r == CacheManager_set(cache, key, chunk_results, now,
                                      enable_cache, max_cache_size)
                next_start == IF run[t].chunk_size = 0 THEN Total(t)
                              ELSE run[t].chunk_start + run[t].chunk_size
                sizes == Append(run[t].emitted, Len(yielded))
            IN  IF TagErrors(yielded) # {}
                THEN /\ analysis_progress' = [analysis_progress EXCEPT
                             ![t].status = "error",
                             ![t].error = CHOOSE e \in TagErrors(yielded) : TRUE]
                     /\ run' = [run EXCEPT ![t].pc = "done", ![t].emitted = sizes]
                     /\ UNCHANGED cache
                ELSE IF r.raised
                THEN \* KeyError out of the cache ends the run like any exception
                     /\ cache' = r.cache
                     /\ analysis_progress' = [analysis_progress EXCEPT
                             ![t].status = "error", ![t].error = "KeyError"]
                     /\ run' = [run EXCEPT ![t].pc = "done", ![t].emitted = sizes]
                ELSE /\ cache' = r.cache
                     /\ analysis_progress' = [analysis_progress EXCEPT
                             ![t].results = @ \o chunk_results]
                     /\ run' = [run EXCEPT
                             ![t].all_predictions = all,
                             ![t].processed = @ + Len(yielded),
                             ![t].chunk_start = next_start,
                             ![t].i = 0,
                             ![t].chunk_predictions = <<>>,
                             ![t].emitted = sizes,
                             ![t].pc = IF next_start < Total(t) THEN "sub" ELSE "finish"]
    /\ held' = [held EXCEPT !.cached = @ /\ held.key \in KeysOf(cache')]
    /\ UNCHANGED <<now, enable_cache, max_cache_size, cacheObs, limVars, cancel_requested, cancelApplied, cancelEver, scoreFailed, tagVars, queryVars, pluginVars>>

\* variant: the run ends without writing the final status
FinishRunSilent(t) ==
    /\ run[t].pc = "finish"
    /\ run' = [run EXCEPT ![t].pc = "done"]
    /\ UNCHANGED <<now, cacheVars, limVars, analysis_progress, cancel_requested, cancelApplied, cancelEver, scoreFailed, tagVars, queryVars, pluginVars>>
\* the generator is exhausted: process_tileset marks the session completed
FinishRun(t) ==
    /\ run[t].pc = "finish"
    /\ analysis_progress' = [analysis_progress EXCEPT ![t].status = "completed"]
    /\ run' = [run EXCEPT ![t].pc = "done"]
    /\ UNCHANGED <<now, cacheVars, limVars, cancel_requested, cancelApplied, cancelEver, scoreFailed, tagVars, queryVars, pluginVars>>

\* what get_tileset_progress answers: 404 for an unknown task
PollResponse(t) ==
    IF t \notin DOMAIN analysis_progress THEN [code |-> 404]
    ELSE [code |-> 200, processed |-> analysis_progress[t].processed,
          total |-> analysis_progress[t].total, status |-> analysis_progress[t].status]

\* variant: the completion test comes before the error test
ResultsResponseConflictFirst(t) ==
    IF t \notin DOMAIN analysis_progress THEN [code |-> 404]
    ELSE IF analysis_progress[t].status # "completed" THEN [code |-> 400]
    ELSE [code |-> 200, results |-> analysis_progress[t].results]
\* what get_tileset_results answers
ResultsResponse(t) ==
    IF t \notin DOMAIN analysis_progress THEN [code |-> 404]
    ELSE IF analysis_progress[t].status = "error"
         THEN [code |-> 500, detail |-> analysis_progress[t].error]
    ELSE IF analysis_progress[t].status # "completed" THEN [code |-> 400]
    ELSE [code |-> 200, results |-> analysis_progress[t].results]

\* variant: the scheduler is signalled whatever the session's status
cancel_signals_always(ap, flag, t) ==
    IF t \notin DOMAIN ap THEN [progress |-> ap, flag |-> flag, code |-> 404]
    ELSE [progress |-> IF ap[t].status = "processing"
                       THEN [ap EXCEPT ![t].status = "cancelled"] ELSE ap,
          flag |-> TRUE, code |-> 200]
\* cancel_tileset_analysis on the sessions ap and the scheduler's flag: the
\* sessions and the flag after the call, and the answer
cancel_tileset_analysis(ap, flag, t) ==
    IF t \notin DOMAIN ap THEN [progress |-> ap, flag |-> flag, code |-> 404]
    ELSE IF ap[t].status = "processing"
         THEN [progress |-> [ap EXCEPT ![t].status = "cancelled"],
               flag |-> TRUE, code |-> 200]
         ELSE [progress |-> ap, flag |-> flag, code |-> 200]

\* POST /analyze/tileset/cancel/{task_id}
Cancel(t) ==
    /\ LET r == cancel_tileset_analysis(analysis_progress, cancel_requested, t)
           applied == t \in DOMAIN analysis_progress
                      /\ analysis_progress[t].status = "processing"
       IN  /\ analysis_progress' = r.progress
           /\ cancel_requested' = r.flag
           /\ cancelApplied' = IF applied THEN cancelApplied \cup {t} ELSE cancelApplied
           /\ cancelEver' = (cancelEver \/ applied)
    /\ UNCHANGED <<now, cacheVars, limVars, run, scoreFailed, tagVars, queryVars, pluginVars>>

\* get_tileset_progress: reads the session, changes nothing
Poll(t) ==
    /\ PollResponse(t).code \in {200, 404}
    /\ UNCHANGED vars

\* get_tileset_results: reads the session, changes nothing
Results(t) ==
    /\ ResultsResponse(t).code \in {200, 400, 404, 500}
    /\ UNCHANGED vars

\* TileTagger.analyze_tile for one uploaded image of content c: the cached
\* result if there is one (relabelled in place with this call's tile id),
\* else a scoring call, which may raise, and the result cached per image
analyze_tile(c, tile_id, scored_ok) ==
    LET key == GenerateKey(c)
        g == CacheManager_get(cache, key, now, enable_cache)
    IN  IF g.hit
        THEN LET relabelled == [g.value EXCEPT !.tile_id = tile_id]
             IN  [cache |-> [g.cache EXCEPT ![IndexOf(g.cache, key)].value = relabelled],
                  scored |-> FALSE, raised |-> FALSE, result |-> relabelled]
        ELSE IF ~scored_ok
             THEN [cache |-> g.cache, scored |-> TRUE, raised |-> TRUE, result |-> NoValue]
             ELSE LET tagged == ProcessPredictions(Predict(c))
                      result == [tile_id |-> tile_id, tags |-> tagged.tags]
                      r == CacheManager_set(g.cache, key, result, now,
                                            enable_cache, max_cache_size)
                  IN  IF tagged.raised # NoValue
                      THEN [cache |-> g.cache, scored |-> TRUE, raised |-> TRUE,
                            result |-> NoValue]
                      ELSE [cache |-> r.cache, scored |-> TRUE, raised |-> r.raised,
                            result |-> IF r.raised THEN NoValue ELSE result]

\* the dict the first call returned, after a call for content c that ended as
\* a: the first result is the object stored by set_image_result; a hit on its
\* key assigns cached_result['tile_id'] on that same object; a call that
\* scores the content again stores a new object under the key
HeldAfter(c, tile_id, a) ==
    IF ~held.set /\ ~a.raised
    THEN [set |-> TRUE, key |-> GenerateKey(c), cached |-> GenerateKey(c) \in KeysOf(a.cache),
          returned |-> a.result, current |-> a.result]
    ELSE IF held.set /\ held.cached /\ held.key = GenerateKey(c) /\ ~a.scored
    THEN [held EXCEPT !.current = a.result]
    ELSE IF held.set /\ held.key = GenerateKey(c) /\ a.scored
    THEN [held EXCEPT !.cached = FALSE]
    ELSE [held EXCEPT !.cached = @ /\ held.key \in KeysOf(a.cache)]

\* POST /analyze/tile
AnalyzeTile(c, tile_id, scored_ok) ==
    /\ cache' = analyze_tile(c, tile_id, scored_ok).cache
    /\ held' = HeldAfter(c, tile_id, analyze_tile(c, tile_id, scored_ok))
    /\ UNCHANGED <<now, enable_cache, max_cache_size, cacheObs, limVars, sessVars, tagVars, queryVars, pluginVars>>

SessionNext ==
    \/ \E c \in TileContents, id \in TileIdArgs, ok \in BOOLEAN : AnalyzeTile(c, id, ok)
    \/ \E t \in Tasks, imgs \in Uploads : Submit(t, imgs)
    \/ \E t \in Tasks : StartRun(t)
    \/ \E t \in Tasks : SubBatchBegin(t)
    \/ \E t \in Tasks : ScoreReturn(t)
    \/ \E t \in Tasks, msg \in ScoringErrors : ScoreRaise(t, msg)
    \/ \E t \in Tasks : AfterChunk(t)
    \/ \E t \in Tasks : FinishRun(t)
    \/ \E t \in Tasks : Cancel(t)
    \/ \E t \in Tasks : Poll(t)
    \/ \E t \in Tasks : Results(t)

SessionInit == now = 0 /\ SessionsIdle /\ CacheIdle /\ LimiterIdle /\ TagsIdle /\ PluginIdle /\ QueryIdle
SpecSession == SessionInit /\ [][SessionNext]_vars

\* one step of the background run of task t; the server keeps running a
\* started background task, and every scoring call returns or raises
RunStep(t) ==
    \/ StartRun(t)
    \/ SubBatchBegin(t)
    \/ ScoreReturn(t)
    \/ \E msg \in ScoringErrors : ScoreRaise(t, msg)
    \/ AfterChunk(t)
    \/ FinishRun(t)
SessionFairness == \A t \in Tasks : WF_vars(RunStep(t))
\* the sessions under fairness: submissions, runs and cancels. Poll and
\* results change nothing, and the single-tile analysis changes only cache
\* entries, which no step of a run reads.
LiveInit == now = 0 /\ SessionsIdle /\ CacheIdle /\ LimiterIdle /\ TagsIdle /\ PluginIdle /\ QueryIdle
LiveNext ==
    \/ \E t \in Tasks, imgs \in Uploads : Submit(t, imgs)
    \/ \E t \in Tasks : RunStep(t)
    \/ \E t \in Tasks : Cancel(t)
SpecSessionFair == LiveInit /\ [][LiveNext]_vars /\ SessionFairness

\* ------------------------------------------------------ similarity query
\* the candidates one similarity request carries, and its minimum confidences
MaxTargets == 3
SimilarContents == Contents \cup {FaintImage}
MinConfidences == {6, 7, 10}
\* chunk_size TileTagger.find_similar_tiles passes to analyze_tileset
SimilarChunkSize == 100

\* TagManager.find_similar_tags: the source tags at or above min_confidence
HighConfidence(tags, min_confidence) ==
    SelectSeq(tags, LAMBDA t : t.confidence >= min_confidence)
\* the generator under next(): some target tag equals the source tag in
\* category and subcategory and is at or above min_confidence
HasMatchingTag(source_tag, target_tags, min_confidence) ==
    \E k \in 1 .. Len(target_tags) :
        /\ target_tags[k].category = source_tag.category
        /\ target_tags[k].subcategory = source_tag.subcategory
        /\ target_tags[k].confidence >= min_confidence
RECURSIVE SimilarFrom(_, _, _, _)
SimilarFrom(high, target_tags_list, min_confidence, idx) ==
    IF idx > Len(target_tags_list) THEN <<>>
    ELSE (IF \E k \in 1 .. Len(high) :
                 HasMatchingTag(high[k], target_tags_list[idx], min_confidence)
          THEN <<idx - 1>> ELSE <<>>)
         \o SimilarFrom(high, target_tags_list, min_confidence, idx + 1)
\* TagManager.find_similar_tags (indices as enumerate gives them, from 0)
find_similar_tags(source_tags, target_tags_list, min_confidence) ==
    LET high == HighConfidence(source_tags, min_confidence)
    IN  IF high = <<>> THEN <<>>
        ELSE SimilarFrom(high, target_tags_list, min_confidence, 1)

\* the loop of TileTagger.find_similar_tiles over the chunks analyze_tileset
\* yields: the indices found in a chunk are shifted by the results before it
RECURSIVE SimilarByChunk(_, _, _, _)
SimilarByChunk(source_tags, target_tags_list, min_confidence, processed) ==
    IF processed >= Len(target_tags_list) THEN <<>>
    ELSE LET chunk == Slice(target_tags_list, processed, processed + SimilarChunkSize)
             found == find_similar_tags(source_tags, chunk, min_confidence)
         IN  [k \in 1 .. Len(found) |-> found[k] + processed]
             \o SimilarByChunk(source_tags, target_tags_list, min_confidence,
                               processed + Len(chunk))

\* TileTagger.find_similar_tiles(source_image, target_images, min_confidence)
\* on a server with no other request in flight: the source through
\* analyze_tile, the targets through analyze_tileset with chunk_size 100,
\* where the progress call after the first sub-batch raises as in
\* ScoreReturn; an exception of either leaves the function
find_similar_tiles(source_image, target_images, min_confidence) ==
    LET source_result == ProcessPredictions(Predict(source_image))
        target_results == [k \in 1 .. Len(target_images) |->
                              ProcessPredictions(Predict(target_images[k]))]
        tag_errors == TagErrors([k \in 1 .. Len(target_images) |-> Predict(target_images[k])])
    IN  IF source_result.raised # NoValue
        THEN [done |-> TRUE, raised |-> source_result.raised, value |-> <<>>]
        ELSE IF target_images # <<>>
                /\ CallbackParameters(SimilarChunkSize) # CallbackArguments
        THEN [done |-> TRUE, raised |-> CallbackError, value |-> <<>>]
        ELSE IF tag_errors # {}
        THEN [done |-> TRUE, raised |-> CHOOSE e \in tag_errors : TRUE, value |-> <<>>]
        ELSE [done |-> TRUE, raised |-> NoValue,
              value |-> SimilarByChunk(source_result.tags,
                                       [k \in 1 .. Len(target_images) |-> target_results[k].tags],
                                       min_confidence, 0)]

\* POST /similar/{tile_id}
FindSimilar ==
    /\ qy_in.op = "similar" /\ ~qy_out.done
    /\ qy_out' = find_similar_tiles(qy_in.source, qy_in.targets, qy_in.min_confidence)
    /\ UNCHANGED <<now, cacheVars, limVars, sessVars, tagVars, pluginVars, qy_in>>

SimilarInit ==
    /\ now = 0 /\ CacheIdle /\ LimiterIdle /\ SessionsIdle /\ TagsIdle /\ PluginIdle
    /\ qy_out = NoAnswer
    /\ \E source \in SimilarContents, n \in 0 .. MaxTargets, m \in MinConfidences :
         \E targets \in [1 .. n -> SimilarContents] :
            qy_in = [op |-> "similar", source |-> source, targets |-> targets,
                     min_confidence |-> m]
SimilarNext == FindSimilar
SpecSimilar == SimilarInit /\ [][SimilarNext]_vars

\* ------------------------------------------------------ statistics query
\* the tiles one statistics call is given, and the confidences their tags carry
MaxTiles == 3
StatConfidences == {7, 9}
\* the tag lists a tile can carry: what an assignment over the vocabulary
\* can return (index order, no index twice)
RECURSIVE TagListsOver(_, _)
TagListsOver(vocab, idx) ==
    IF idx > Len(vocab) THEN {<<>>}
    ELSE LET rest == TagListsOver(vocab, idx + 1)
         IN  rest \cup {<<TagAt(vocab, idx, c)>> \o r : c \in StatConfidences, r \in rest}
StatTagLists == TagListsOver(ScenarioVocabulary, 1)

\* f"{tag['category']}.{tag['subcategory']}"
FullTag(tag) == <<tag.category, tag.subcategory>>

\* the first loop of calculate_statistics over the tags of one tile, then
\* over the tiles: stats maps a full tag to its running count and total
RECURSIVE CountTags(_, _)
CountTags(stats, tags) ==
    IF tags = <<>> THEN stats
    ELSE LET tag == Head(tags)
             full_tag == FullTag(tag)
             old == IF full_tag \in DOMAIN stats THEN stats[full_tag]
                    ELSE [tile_count |-> 0, total_confidence |-> 0]
             new == [tile_count |-> old.tile_count + 1,
                     total_confidence |-> old.total_confidence + tag.confidence]
         IN  CountTags([f \in DOMAIN stats \cup {full_tag} |->
                           IF f = full_tag THEN new ELSE stats[f]], Tail(tags))
RECURSIVE CountTiles(_, _)
CountTiles(stats, tile_tags) ==
    IF tile_tags = <<>> THEN stats
    ELSE CountTiles(CountTags(stats, Head(tile_tags)), Tail(tile_tags))

\* the total left undivided
QuotientByOne(total, count) == [num |-> total, den |-> 1]
\* total_confidence / tile_count, kept as the exact quotient
Quotient(total, count) == [num |-> total, den |-> count]

\* TagManager.calculate_statistics of the server
calculate_statistics(tile_tags) ==
    LET stats == CountTiles(<<>>, tile_tags)
    IN  [f \in DOMAIN stats |->
            [tile_count |-> stats[f].tile_count,
             avg_confidence |-> Quotient(stats[f].total_confidence, stats[f].tile_count)]]
\* TagManager.get_tag_statistics of the plugin, over the ai_tags properties of
\* the tileset's tiles
get_tag_statistics(properties) ==
    LET stats == CountTiles(<<>>, [k \in 1 .. Len(properties) |-> get_tags(properties[k])])
    IN  [f \in DOMAIN stats |->
            [tile_count |-> stats[f].tile_count,
             category |-> f[1], subcategory |-> f[2],
             avg_confidence |-> Quotient(stats[f].total_confidence, stats[f].tile_count)]]

\* one statistics call, of the server's function or of the plugin's
Statistics ==
    /\ qy_in.op = "statistics" /\ ~qy_out.done
    /\ qy_out' = [done |-> TRUE,
                  value |-> IF qy_in.impl = "server"
                            THEN calculate_statistics(qy_in.tile_tags)
                            ELSE get_tag_statistics(
                                     [k \in 1 .. Len(qy_in.tile_tags) |->
                                         IF qy_in.untagged /\ qy_in.tile_tags[k] = <<>>
                                         THEN NoProperty ELSE add_tags(qy_in.tile_tags[k])])]
    /\ UNCHANGED <<now, cacheVars, limVars, sessVars, tagVars, pluginVars, qy_in>>

\* the plugin's tiles got their lists through add_tags; a tile with no tags
\* either got the empty list or was never tagged (untagged)
StatsInit ==
    /\ now = 0 /\ CacheIdle /\ LimiterIdle /\ SessionsIdle /\ TagsIdle /\ PluginIdle
    /\ qy_out = NoAnswer
    /\ \E n \in 0 .. MaxTiles, impl \in {"server", "plugin"}, untagged \in BOOLEAN :
         \E tile_tags \in [1 .. n -> StatTagLists] :
            /\ (impl = "server" => ~untagged)
            /\ qy_in = [op |-> "statistics", impl |-> impl, untagged |-> untagged,
                        tile_tags |-> tile_tags]
StatsNext == Statistics
SpecStats == StatsInit /\ [][StatsNext]_vars

\* ------------------------------------------------------ plugin: operations
\* the editor creates a tile object for an image; id() gives it an address no
\* live object has
NewTile(h, c, a) ==
    /\ ~pl_tiles[h].alive
    /\ \A g \in Handles : pl_tiles[g].alive => pl_tiles[g].addr # a
    /\ pl_tiles' = [pl_tiles EXCEPT ![h] = [alive |-> TRUE, addr |-> a, content |-> c,
                                            ai_tags |-> NoProperty]]
    /\ UNCHANGED <<now, cacheVars, limVars, sessVars, tagVars, queryVars, pl_cache, pl_last, pl_seen>>

\* a tile object is released; its address becomes free for a later object
DropTile(h) ==
    /\ pl_tiles[h].alive
    /\ pl_tiles' = [pl_tiles EXCEPT ![h] = NoTile]
    /\ UNCHANGED <<now, cacheVars, limVars, sessVars, tagVars, queryVars, pl_cache, pl_last, pl_seen>>

\* the plugin's TileTagger.analyze_tile(tile)
PluginAnalyzeTile(h) ==
    /\ pl_tiles[h].alive
    /\ LET tile_id == pl_tiles[h].addr
           c == pl_tiles[h].content
           hit == tile_id \in DOMAIN pl_cache
           tags == IF hit THEN pl_cache[tile_id]
                   ELSE GetRelevantTags(PluginPredict(c), PluginThreshold, plugin_tag_list)
       IN  /\ pl_cache' = IF hit THEN pl_cache
                          ELSE [x \in DOMAIN pl_cache \cup {tile_id} |->
                                   IF x = tile_id THEN tags ELSE pl_cache[x]]
           /\ pl_tiles' = IF hit THEN pl_tiles
                          ELSE [pl_tiles EXCEPT ![h].ai_tags = add_tags(tags)]
           /\ pl_last' = [op |-> "analyze_tile", handle |-> h, content |-> c, scored |-> ~hit, tags |-> tags,
                          seen |-> pl_seen[c] # NoValue, first |-> pl_seen[c],
                          stored |-> IF hit THEN pl_tiles[h].ai_tags ELSE add_tags(tags)]
           /\ pl_seen' = IF pl_seen[c] = NoValue THEN [pl_seen EXCEPT ![c] = tags]
                         ELSE pl_seen
    /\ UNCHANGED <<now, cacheVars, limVars, sessVars, tagVars, queryVars>>

\* TileTagger.clear_cache
PluginClearCache ==
    /\ pl_cache' = <<>>
    /\ pl_seen' = [c \in PluginContents |-> NoValue]
    /\ pl_last' = NoAnalysis
    /\ UNCHANGED <<now, cacheVars, limVars, sessVars, tagVars, queryVars, pl_tiles>>

\* ---- the tag store of the plugin on its own: add_tags, remove_tags and
\* get_tags over the ai_tags properties of the tiles
\* the ai_tags properties of the tiles, by handle
PropertiesOf(tiles) == [h \in Handles |-> tiles[h].ai_tags]
\* the category lists remove_tags is called with
CategoryArgs == {{"terrain"}, {"object"}}

\* tag_manager.add_tags(tile, tags)
AddTags(h, tags) ==
    /\ pl_tiles[h].alive
    /\ pl_tiles' = [pl_tiles EXCEPT ![h].ai_tags = add_tags(tags)]
    /\ pl_last' = [op |-> "add_tags", handle |-> h, tags |-> tags,
                   before |-> PropertiesOf(pl_tiles)]
    /\ UNCHANGED <<now, cacheVars, limVars, sessVars, tagVars, queryVars, pl_cache, pl_seen>>

\* tag_manager.remove_tags(tile, categories)
RemoveTags(h, every, categories) ==
    /\ pl_tiles[h].alive
    /\ pl_tiles' = [pl_tiles EXCEPT ![h].ai_tags = remove_tags(@, every, categories)]
    /\ pl_last' = [op |-> "remove_tags", handle |-> h, tags |-> <<>>,
                   before |-> PropertiesOf(pl_tiles)]
    /\ UNCHANGED <<now, cacheVars, limVars, sessVars, tagVars, queryVars, pl_cache, pl_seen>>

TagStoreInit ==
    /\ now = 0 /\ CacheIdle /\ LimiterIdle /\ SessionsIdle /\ TagsIdle /\ PluginIdle /\ QueryIdle
TagStoreNext ==
    \/ \E h \in Handles, c \in PluginContents, a \in Addresses : NewTile(h, c, a)
    \/ \E h \in Handles, tags \in StatTagLists : AddTags(h, tags)
    \/ \E h \in Handles, every \in BOOLEAN, categories \in CategoryArgs :
          RemoveTags(h, every, categories)
SpecTagStore == TagStoreInit /\ [][TagStoreNext]_vars

PluginInit ==
    /\ now = 0 /\ CacheIdle /\ LimiterIdle /\ SessionsIdle /\ TagsIdle /\ PluginIdle /\ QueryIdle
PluginNext ==
    \/ \E h \in Handles, c \in PluginContents, a \in Addresses : NewTile(h, c, a)
    \/ \E h \in Handles : DropTile(h)
    \/ \E h \in Handles : PluginAnalyzeTile(h)
    \/ PluginClearCache
SpecPlugin == PluginInit /\ [][PluginNext]_vars

\* ---- one run with chosen arguments: analyze_batch(images, batch_size,
\* progress_callback, chunk_size) under analyze_tileset and process_tileset,
\* for every input size, chunk_size and batch_size within the bounds
BatchTask == "t1"
BatchInit ==
    /\ now = 0 /\ CacheIdle /\ LimiterIdle /\ TagsIdle /\ PluginIdle /\ QueryIdle
    /\ cancel_requested = FALSE
    /\ cancelApplied = {} /\ cancelEver = FALSE /\ scoreFailed = {}
    /\ \E n \in 1 .. MaxBatchImages, cs \in 0 .. MaxChunkSize, bs \in 1 .. MaxBatchSize :
         /\ analysis_progress =
                (BatchTask :> [processed |-> 0, total |-> n, status |-> "processing",
                               results |-> <<>>, error |-> NoValue])
         /\ run = [t \in Tasks |->
                     IF t = BatchTask
                     THEN [NoFrame EXCEPT !.pc = "queued", !.images = ImagesOf(n),
                                          !.chunk_size = cs, !.batch_size = bs]
                     ELSE NoFrame]

BatchNext ==
    \/ StartRun(BatchTask)
    \/ SubBatchBegin(BatchTask)
    \/ ScoreReturn(BatchTask)
    \/ \E msg \in ScoringErrors : ScoreRaise(BatchTask, msg)
    \/ AfterChunk(BatchTask)
    \/ FinishRun(BatchTask)
    \/ Cancel(BatchTask)

SpecBatch == BatchInit /\ [][BatchNext]_vars

\* ------------------------------------------------------ cache: properties
CacheBounded == enable_cache /\ max_cache_size >= 1

\* C4: an enabled cache with max_size >= 1 never holds more than max_size
\* entries, whatever sequence of get, set, remove_expired and clear ran.
C4_SizeBound == CacheBounded => Len(cache) <= max_cache_size

\* a set on a full cache evicted an entry and the cache is full again
C4_Witness ==
    /\ CacheBounded /\ cache_last.op = "set" /\ cache_last.popped # NoKey
    /\ Len(cache) = max_cache_size /\ max_cache_size = MaxCacheSize

\* C5: a set that inserts a new key into a cache holding max_size entries
\* evicts exactly one entry, the least recently used one (a use is the
\* insertion of the entry into the mapping or a get that hits it), and
\* leaves max_size entries.
C5_EvictsLRU ==
    [][\A c \in Contents, v \in CacheValues :
         LET k == GenerateKey(c) IN
         (/\ Set(k, v) /\ CacheBounded
          /\ k \notin KeysOf(cache) /\ Len(cache) = max_cache_size)
         => /\ KeysOf(cache') = (KeysOf(cache) \ {Head(recency)}) \cup {k}
            /\ Head(recency) # k
            /\ Len(cache') = max_cache_size]_vars

\* a new key was set into a full cache of the largest size, one entry was
\* evicted and the cache is full again
C5_Witness ==
    /\ CacheBounded /\ max_cache_size = MaxCacheSize
    /\ cache_last.op = "set" /\ ~cache_last.present /\ cache_last.popped # NoKey
    /\ Len(cache) = max_cache_size

\* C6: with caching enabled and max_size >= 1, a get(k) that directly
\* follows set(k, v), with no more than TTL elapsed, returns v.
C6_SetThenGet ==
    [][\A c \in Contents :
         LET k == GenerateKey(c) IN
         (/\ Get(k) /\ CacheBounded
          /\ cache_last.op = "set" /\ cache_last.key = k
          /\ now - written[k].at <= cache_ttl)
         => cache_last'.hit /\ cache_last'.ret = cache_last.value]_vars

\* a get returned the value of the set right before it, which had
\* overwritten another value of that key
C6_Witness ==
    /\ CacheBounded /\ cache_last.op = "get" /\ cache_last.afterSet
    /\ cache_last.hit /\ cache_last.ret = "v2"

\* C7: an entry written at time T and still present is returned by get at
\* every time t with t - T <= TTL; at t - T > TTL get returns absent and
\* removes the entry.
C7_TTL ==
    [][\A c \in Contents :
         LET k == GenerateKey(c) IN
         (Get(k) /\ enable_cache /\ k \in KeysOf(cache))
         => /\ k \in DOMAIN written
            /\ now - written[k].at <= cache_ttl
                 => /\ cache_last'.hit /\ cache_last'.ret = written[k].value
                    /\ k \in KeysOf(cache')
            /\ now - written[k].at > cache_ttl
                 => /\ ~cache_last'.hit /\ cache_last'.ret = NoValue
                    /\ k \notin KeysOf(cache')]_vars

\* a get found its entry expired and removed it
C7_Witness ==
    /\ enable_cache /\ cache_last.op = "get" /\ cache_last.present
    /\ ~cache_last.hit /\ cache_last.key \notin KeysOf(cache)

\* a get returned an entry exactly TTL after it was written
C7_WitnessAtTTL ==
    /\ enable_cache /\ cache_last.op = "get" /\ cache_last.hit
    /\ cache_last.key \in DOMAIN written
    /\ now - written[cache_last.key].at = cache_ttl

\* every content a cache within the bounds can hold: entries under distinct
\* image keys, any value, any timestamp
CacheEntries ==
    [key : {GenerateKey(c) : c \in Contents}, value : CacheValues,
     timestamp : 0 .. CacheMaxNow]
PriorCaches ==
    {q \in UNION {[1 .. n -> CacheEntries] : n \in 0 .. MaxCacheSize} :
        \A i, j \in 1 .. Len(q) : q[i].key = q[j].key => i = j}

\* C16: with caching disabled every get returns absent and every set leaves
\* the cache as it was: in every reachable state, and for the key and value
\* of the call just made applied to every content the cache could hold.
C16_Disabled ==
    ~enable_cache =>
        /\ cache = <<>>
        /\ cache_last.op = "get" =>
              /\ ~cache_last.hit /\ cache_last.ret = NoValue
              /\ \A c \in PriorCaches :
                    CacheManager_get(c, cache_last.key, now, FALSE)
                        = [cache |-> c, hit |-> FALSE, value |-> NoValue]
        /\ cache_last.op = "set" =>
              /\ ~cache_last.raised
              /\ \A c \in PriorCaches :
                    LET r == CacheManager_set(c, cache_last.key, cache_last.value, now,
                                              FALSE, max_cache_size)
                    IN  r.cache = c /\ ~r.raised

\* a set has just been made on a disabled cache that could hold entries
C16_Witness ==
    /\ ~enable_cache /\ max_cache_size >= 1
    /\ cache_last.op = "set" /\ cache_last.key = GenerateKey(1)

\* the cache after set(k, v) now, for a key k present in an enabled cache
AfterOverwrite(k, v) ==
    CacheManager_set(cache, k, v, now, enable_cache, max_cache_size)
OverwriteCases ==
    {kv \in {GenerateKey(c) : c \in Contents} \X CacheValues :
        enable_cache /\ kv[1] \in KeysOf(cache)}

\* C28: set(k, v2) on a key already present replaces the value with v2,
\* resets created_at to now and moves k to the most-recently-used position
\* (the last of the eviction order).
C28_OverwritePromotes ==
    \A kv \in OverwriteCases :
        LET r == AfterOverwrite(kv[1], kv[2])
        IN  /\ ~r.raised
            /\ kv[1] \in KeysOf(r.cache)
            /\ EntryOf(r.cache, kv[1]).value = kv[2]
            /\ EntryOf(r.cache, kv[1]).timestamp = now
            /\ IndexOf(r.cache, kv[1]) = Len(r.cache)
\* the value and the timestamp are replaced
C28_OverwriteRefreshes ==
    \A kv \in OverwriteCases :
        LET r == AfterOverwrite(kv[1], kv[2])
        IN  /\ ~r.raised
            /\ kv[1] \in KeysOf(r.cache)
            /\ EntryOf(r.cache, kv[1]).value = kv[2]
            /\ EntryOf(r.cache, kv[1]).timestamp = now

\* C29: a set on a key already present removes no other key: the cache holds
\* the same keys before and after, also when it holds max_size entries.
C29_OverwriteKeepsKeys ==
    \A kv \in OverwriteCases :
        KeysOf(AfterOverwrite(kv[1], kv[2]).cache) = KeysOf(cache)
\* below capacity the keys are kept
C29_KeepsKeysBelowCapacity ==
    \A kv \in OverwriteCases :
        Len(cache) < max_cache_size
        => KeysOf(AfterOverwrite(kv[1], kv[2]).cache) = KeysOf(cache)

\* C39: for every configured bound, 0 included, no set and no check ends in
\* an exception: a set returns with the enabled cache within its bound, and
\* with quota 0 a check returns Denied.
C39_NoInternalError ==
    /\ cache_last.op = "set" => ~cache_last.raised
    /\ enable_cache => Len(cache) <= max_cache_size
    /\ rl_last.client # NoClient
         => ~rl_last.raised /\ (max_requests = 0 => ~rl_last.allowed)

\* C37: a remove_expired call removes exactly the entries with
\* now - timestamp > TTL; every other entry keeps its value and timestamp and
\* its place relative to the other entries that stay.
C37_RemoveExpiredExact ==
    [][(cache_last'.op = "remove_expired" /\ now' = now)
       => /\ KeysOf(cache') = {cache[i].key : i \in {j \in 1 .. Len(cache) :
                                   now - cache[j].timestamp <= cache_ttl}}
          /\ Len(cache') = Cardinality(KeysOf(cache'))
          /\ \A i \in 1 .. Len(cache') : cache'[i] = EntryOf(cache, cache'[i].key)
          /\ \A i \in 1 .. Len(cache') : \A j \in 1 .. Len(cache') :
                i < j => IndexOf(cache, cache'[i].key) < IndexOf(cache, cache'[j].key)
          /\ enable_cache' = enable_cache /\ max_cache_size' = max_cache_size]_vars

\* a remove_expired call has just removed an entry and left a younger one
C37_Witness ==
    /\ cache_last.op = "remove_expired" /\ cache_last.removed # {}
    /\ cache # <<>> /\ max_cache_size = MaxCacheSize

\* ---------------------------------------------------- limiter: properties
\* C8: for quota Q >= 1, the first Q consecutive checks of one client at one
\* instant (its window empty before) are all Allowed, the (Q+1)th at that
\* instant is Denied with retry_after > 0, and the client's check W seconds
\* after that instant is Allowed.
C8_Burst ==
    (rl_last.client # NoClient /\ max_requests >= 1)
    => /\ (rl_last.fresh /\ rl_last.n <= max_requests) => rl_last.allowed
       /\ (rl_last.fresh /\ rl_last.n = max_requests + 1)
            => ~rl_last.allowed /\ ~rl_last.raised /\ rl_last.retry_after > 0
       /\ rl_last.waited => rl_last.allowed

\* a client that exhausted the largest quota at one instant is allowed again
\* exactly one window later
C8_Witness ==
    /\ max_requests = MaxQuota /\ rl_last.client # NoClient
    /\ rl_last.waited /\ rl_last.allowed

PrunedWindow(c, t) ==
    IF c \in DOMAIN requests
    THEN SelectSeq(requests[c], LAMBDA ts : ts > t - window_size)
    ELSE <<>>

\* C32: a check that returns Denied returns retry_after = floor(oldest
\* remaining timestamp + W - now) in whole seconds and leaves the client's
\* window equal to its pruned window before the check; a check of the client
\* at any later instant has the outcome it would have had without the denied
\* check.
C32_DeniedRecordsNothing ==
    \A c \in Clients :
        LET r == check_rate_limit(requests, c, now, max_requests)
        IN  (~r.allowed /\ ~r.raised)
            => /\ PrunedWindow(c, now) # <<>>
               /\ r.retry_after * TicksPerSec <= PrunedWindow(c, now)[1] + window_size - now
               /\ PrunedWindow(c, now)[1] + window_size - now < (r.retry_after + 1) * TicksPerSec
               /\ r.requests[c] = PrunedWindow(c, now)
               /\ \A t2 \in now .. LimMaxNow :
                     LET with == check_rate_limit(r.requests, c, t2, max_requests)
                         without == check_rate_limit(requests, c, t2, max_requests)
                     IN  with.allowed = without.allowed /\ with.retry_after = without.retry_after

\* a check was just denied at the largest quota while the oldest timestamp of
\* the client's window is older than the check and an earlier timestamp of
\* the client had already been pruned
C32_Witness ==
    /\ max_requests = MaxQuota /\ rl_last.client # NoClient /\ rl_last.at = now
    /\ ~rl_last.allowed /\ ~rl_last.raised
    /\ requests[rl_last.client][1] < now
    /\ Len(admitted[rl_last.client]) > Len(requests[rl_last.client])

\* what a check returns to its caller
Outcome(r) == <<r.allowed, r.retry_after, r.raised>>

\* C38: a check of client a leaves the window of every other client b as it
\* is (and creates none for b); a check of b at any instant from now on has
\* the same outcome whether a's check was made or not, and the outcome of a
\* check of b now is the one computed from b's own allowed checks alone.
C38_ClientsIndependent ==
    \A a \in Clients : \A b \in Clients \ {a} :
        LET r == check_rate_limit(requests, a, now, max_requests)
        IN  /\ (b \in DOMAIN r.requests) = (b \in DOMAIN requests)
            /\ b \in DOMAIN requests => r.requests[b] = requests[b]
            /\ \A t2 \in now .. LimMaxNow :
                  Outcome(check_rate_limit(r.requests, b, t2, max_requests))
                  = Outcome(check_rate_limit(requests, b, t2, max_requests))
            /\ Outcome(check_rate_limit(requests, b, now, max_requests))
               = Outcome(check_rate_limit(b :> admitted[b], b, now, max_requests))

\* client a's check was just allowed while client b's list holds a full
\* quota of timestamps, the oldest of them older than one window
C38_Witness ==
    /\ max_requests = MaxQuota /\ rl_last.client = "a" /\ rl_last.at = now
    /\ rl_last.allowed
    /\ "b" \in DOMAIN requests /\ Len(requests["b"]) = MaxQuota
    /\ requests["b"][1] <= now - window_size

\* C33: with the statements of several checks of one client interleaved, the
\* number of the client's checks admitted with timestamps inside one window
\* never exceeds the quota.
C33_ConcurrentQuota ==
    \A c \in Clients : \A t \in 0 .. ThreadsMaxNow :
        Cardinality({i \in DOMAIN admitted[c] :
                        admitted[c][i] \in (t - window_size + 1) .. t}) <= max_requests

\* ----------------------------------------- scheduler and sessions: properties
Terminal == {"completed", "error", "cancelled"}

\* the results a complete analysis of the images holds: one per image, in
\* input order, the result at position i labelled tile_i, its tags those the
\* assignment gives for the image's score vector
ExpectedResults(imgs) ==
    [i \in 1 .. Len(imgs) |->
        [tile_id |-> i - 1,
         tags |-> process_predictions(Predict(imgs[i]), CONFIDENCE_THRESHOLD,
                                      tag_list, "list").tags]]

\* C1: no step changes the status of a session that is Completed, Error or
\* Cancelled; a session cancelled while Processing stays Cancelled when its
\* run ends.
C1_TerminalStays ==
    [][\A t \in Tasks :
         (t \in DOMAIN analysis_progress /\ analysis_progress[t].status \in Terminal)
         => analysis_progress'[t].status = analysis_progress[t].status]_vars

\* C2: a run with no cancellation and no scoring failure ends with the
\* session Completed, its results one per input image in input order (the
\* result at position i labelled tile i), and processed = total = N.
C2_Complete ==
    \A t \in DOMAIN analysis_progress :
        (run[t].pc = "done" /\ ~cancelEver /\ t \notin scoreFailed)
        => /\ analysis_progress[t].status = "completed"
           /\ analysis_progress[t].results = ExpectedResults(run[t].images)
           /\ analysis_progress[t].processed = analysis_progress[t].total

\* every session ran to its end undisturbed, one with the largest input
\* (several chunks, the last one short)
C2_Witness ==
    /\ ~cancelEver /\ scoreFailed = {} /\ DOMAIN analysis_progress = Tasks
    /\ \A t \in Tasks : run[t].pc = "done"
    /\ \E t \in Tasks : /\ analysis_progress[t].total = MaxImages
                         /\ Len(analysis_progress[t].results) = MaxImages

\* C3: once cancel has been applied to a Processing session, its scheduler
\* starts no new sub-batch scoring call, whenever the cancel arrived.
C3_NoCallAfterCancel ==
    [][\A t \in Tasks :
         t \in cancelApplied => ~(run[t].pc # "scoring" /\ run'[t].pc = "scoring")]_vars

\* C10: the scheduler sends no image to the scoring service whose own result
\* is in the cache and unexpired.
C10_NoScoreForCached ==
    [][\A t \in Tasks :
         (run[t].pc = "sub" /\ run'[t].pc = "scoring")
         => CachedImages(BatchOf(t)) = {}]_vars

\* C12: results answers with the result list exactly when the session is
\* Completed; an unknown task is NotFound for results and for poll, an Error
\* session answers with its stored error, a Processing or Cancelled session
\* with Conflict. (The Results and Poll steps leave every variable as it is.)
C12_ResultsAnswer ==
    \A t \in Tasks :
        LET r == ResultsResponse(t)
        IN  IF t \notin DOMAIN analysis_progress
            THEN r.code = 404 /\ PollResponse(t).code = 404
            ELSE LET s == analysis_progress[t]
                 IN  /\ s.status = "completed"
                          => r = [code |-> 200, results |-> s.results]
                     /\ s.status = "error"
                          => r = [code |-> 500, detail |-> s.error] /\ s.error # NoValue
                     /\ s.status \in {"processing", "cancelled"} => r.code = 400
                     /\ r.code = 200 => s.status = "completed"

\* one session in Error, one Completed, so results answers 500 and 200
C12_Witness ==
    /\ DOMAIN analysis_progress = Tasks
    /\ \E t \in Tasks : ResultsResponse(t).code = 500
    /\ \E t \in Tasks : ResultsResponse(t).code = 200

\* C14: cancel on a session that is not Processing changes neither the
\* sessions nor the scheduler's cancel flag and answers success; cancelling a
\* Processing session twice leaves the state of cancelling it once.
C14_CancelIdempotent ==
    \A t \in DOMAIN analysis_progress :
        LET once == cancel_tileset_analysis(analysis_progress, cancel_requested, t)
            twice == cancel_tileset_analysis(once.progress, once.flag, t)
        IN  /\ once.code = 200 /\ twice.code = 200
            /\ analysis_progress[t].status # "processing"
                 => once.progress = analysis_progress /\ once.flag = cancel_requested
            /\ twice.progress = once.progress /\ twice.flag = once.flag

\* a session whose cancel was applied and whose flag a later run has
\* cleared, and a Completed one: a further cancel on either must change nothing
C14_Witness ==
    /\ ~cancel_requested
    /\ \E t \in cancelApplied : analysis_progress[t].status = "cancelled"
    /\ \E t \in DOMAIN analysis_progress : analysis_progress[t].status = "completed"

\* C11: when the scoring service raises on a sub-batch, the run makes no
\* further scoring call, the session goes from Processing to Error with the
\* message recorded, the results of the chunks emitted before stay, and
\* results answers with the stored error from then on.
C11_ScoringFailure ==
    [][\A t \in Tasks :
         /\ \A msg \in ScoringErrors :
               ScoreRaise(t, msg)
               => /\ analysis_progress[t].status = "processing"
                  /\ analysis_progress'[t].status = "error"
                  /\ analysis_progress'[t].error = msg
                  /\ analysis_progress'[t].results = analysis_progress[t].results
         /\ t \in scoreFailed
               => /\ run'[t].pc # "scoring"
                  /\ analysis_progress'[t] = analysis_progress[t]
                  /\ ResultsResponse(t) = [code |-> 500, detail |-> analysis_progress[t].error]
                  /\ analysis_progress[t].error \in ScoringErrors]_vars

\* the same without the status the session has when the call raises
C11_ScoringFailureRecorded ==
    [][\A t \in Tasks :
         /\ \A msg \in ScoringErrors :
               ScoreRaise(t, msg)
               => /\ analysis_progress'[t].status = "error"
                  /\ analysis_progress'[t].error = msg
                  /\ analysis_progress'[t].results = analysis_progress[t].results
         /\ t \in scoreFailed
               => /\ run'[t].pc # "scoring"
                  /\ analysis_progress'[t] = analysis_progress[t]
                  /\ ResultsResponse(t) = [code |-> 500, detail |-> analysis_progress[t].error]
                  /\ analysis_progress[t].error \in ScoringErrors]_vars

\* C13: cancelling one session does not stop another session's run and does
\* not change its status or results: a session that was never cancelled and
\* whose run met no error ends Completed with one result per input image.
C13_OtherSessionUntouched ==
    \A b \in DOMAIN analysis_progress :
        (run[b].pc = "done" /\ b \notin cancelApplied /\ analysis_progress[b].status # "error")
        => /\ analysis_progress[b].status = "completed"
           /\ analysis_progress[b].results = ExpectedResults(run[b].images)

\* C15: 10 images with chunk_size 4 and sub-batch size 2, no cancellation and
\* no failure of the scoring service: the run meets no error, the progress
\* callback reports 2, 4, 6, 8, 10 and exactly three chunks are emitted, of
\* sizes 4, 4, 2, in that order.
IsPrefix(p, q) == Len(p) <= Len(q) /\ p = SubSeq(q, 1, Len(p))
C15_ProgressAndChunks ==
    LET f == run[BatchTask]
    IN  (Len(f.images) = 10 /\ f.chunk_size = 4 /\ f.batch_size = 2
         /\ ~cancelEver /\ BatchTask \notin scoreFailed)
        => /\ analysis_progress[BatchTask].status # "error"
           /\ IsPrefix(f.progress, <<2, 4, 6, 8, 10>>)
           /\ IsPrefix(f.emitted, <<4, 4, 2>>)
           /\ f.pc \in {"finish", "done"}
                => f.progress = <<2, 4, 6, 8, 10>> /\ f.emitted = <<4, 4, 2>>

\* C25: when the run stops on a cancellation observed part-way through a
\* chunk, the predictions of the sub-batches completed before it are emitted
\* and reach the session's results: a run that ended on a cancel without
\* error holds one result for every image it scored.
C25_PartialChunkKept ==
    LET f == run[BatchTask]
    IN  (f.pc \in {"finish", "done"} /\ cancelEver
         /\ analysis_progress[BatchTask].status # "error")
        => Len(analysis_progress[BatchTask].results)
             = Len(f.all_predictions) + Len(f.chunk_predictions)

\* the images of the run the scoring service has scored so far
ScoredSoFar(f) == Len(f.all_predictions) + Len(f.chunk_predictions)

\* C26: the progress callback is invoked once after each completed sub-batch
\* with the number of images of the whole input scored so far and the input
\* size: at every point of the run the reported counts increase by at most
\* one sub-batch each, every total is N, and once a sub-batch has completed
\* the last reported count is the number of images scored so far.
C26_ProgressPerSubBatch ==
    LET f == run[BatchTask]
        n == Len(f.progress)
    IN  f.pc \notin {"none", "queued"} =>
        /\ Len(f.totals) = n
        /\ \A k \in 1 .. n :
              /\ f.totals[k] = Len(f.images)
              /\ LET before == IF k = 1 THEN 0 ELSE f.progress[k - 1]
                 IN  before < f.progress[k] /\ f.progress[k] <= before + f.batch_size
        /\ ScoredSoFar(f) > 0 => (n > 0 /\ f.progress[n] = ScoredSoFar(f))
\* the same for the runs without chunking (chunk_size None)
C26_ProgressUnchunked ==
    run[BatchTask].chunk_size = 0 => C26_ProgressPerSubBatch

\* in every session, 0 <= processed <= total and at most total results
C27_Bounds ==
    \A t \in DOMAIN analysis_progress :
        LET s == analysis_progress[t]
        IN  0 <= s.processed /\ s.processed <= s.total /\ Len(s.results) <= s.total
\* C27: in every reachable state of every session 0 <= processed <= total and
\* the results are at most total; whenever the status is Completed,
\* processed = total and the results hold exactly total entries.
C27_SessionInvariants ==
    /\ C27_Bounds
    /\ \A t \in DOMAIN analysis_progress :
          LET s == analysis_progress[t]
          IN  s.status = "completed" => (s.processed = s.total /\ Len(s.results) = s.total)

\* C30: once the run of a session has found the cancel flag set at a
\* sub-batch boundary, the progress callback is not invoked again and the
\* session's processed counter keeps the value it had.
C30_QuietAfterCancelSeen ==
    \A t \in DOMAIN analysis_progress :
        run[t].seen.flag =>
            /\ Len(run[t].progress) = run[t].seen.calls
            /\ analysis_progress[t].processed = run[t].seen.processed
\* a run that had reported progress found the flag set and has ended
C30_Witness ==
    LET f == run[BatchTask]
    IN  /\ f.seen.flag /\ f.seen.calls > 0 /\ f.pc = "done"
        /\ analysis_progress[BatchTask].processed < analysis_progress[BatchTask].total

\* C36: the step that creates a session gives it status processing,
\* processed 0, total the number of submitted images, no results and no
\* error; its run is only queued, no scoring call of it made; every session
\* that existed keeps its fields and its run its frame.
C36_SubmitCreates ==
    [][\A t \in Tasks :
         (t \notin DOMAIN analysis_progress /\ t \in DOMAIN analysis_progress')
         => /\ analysis_progress'[t] =
                  [processed |-> 0, total |-> Len(run'[t].images), status |-> "processing",
                   results |-> <<>>, error |-> NoValue]
            /\ run'[t].pc = "queued" /\ run'[t].progress = <<>>
            /\ run'[t].chunk_predictions = <<>>
            /\ \A u \in DOMAIN analysis_progress :
                  analysis_progress'[u] = analysis_progress[u] /\ run'[u] = run[u]
            /\ cancel_requested' = cancel_requested]_vars

\* a session over the largest submission is queued beside a session whose run
\* has ended with an error and one image counted
C36_Witness ==
    \E t \in Tasks : \E u \in Tasks \ {t} :
        /\ t \in DOMAIN analysis_progress /\ u \in DOMAIN analysis_progress
        /\ run[t].pc = "queued" /\ analysis_progress[t].total = MaxImages
        /\ analysis_progress[t].processed = 0
        /\ run[u].pc = "done" /\ analysis_progress[u].status = "error"

\* C40: the dict a single-image analysis returned keeps the tile_id (and the
\* tags) it was returned with, whatever calls follow.
C40_ReturnedResultStable == held.set => held.current = held.returned

\* ceil(n / d) for d >= 1
CeilDiv(n, d) == (n + d - 1) \div d

\* C35: every scoring call receives between 1 and batch_size images; with a
\* chunk size, every emitted chunk holds at most chunk_size results and at
\* most ceil(N / chunk_size) chunks are emitted; without one, at most one
\* chunk is emitted, it holds the whole input, and a run that ends with no
\* cancellation and no failure has emitted it.
C35_ChunkBounds ==
    LET f == run[BatchTask]
        N == Len(f.images)
    IN  /\ f.pc = "scoring" => Len(BatchOf(BatchTask)) \in 1 .. f.batch_size
        /\ f.chunk_size > 0 =>
              /\ \A k \in 1 .. Len(f.emitted) : f.emitted[k] <= f.chunk_size
              /\ Len(f.emitted) <= CeilDiv(N, f.chunk_size)
        /\ f.chunk_size = 0 =>
              /\ f.emitted \in {<<>>, <<N>>}
              /\ (f.pc = "done" /\ ~cancelEver /\ BatchTask \notin scoreFailed
                    /\ analysis_progress[BatchTask].status # "error")
                  => f.emitted = <<N>>

\* a run without chunk size over the largest input, scored in several
\* sub-batches of the largest size, has emitted the whole input as one chunk
C35_Witness ==
    LET f == run[BatchTask]
    IN  /\ f.chunk_size = 0 /\ f.batch_size = MaxBatchSize /\ f.pc = "done"
        /\ Len(f.images) = MaxBatchImages /\ f.emitted = <<MaxBatchImages>>
        /\ Len(f.progress) > 1

\* C17: every submitted session eventually leaves Processing for good: its
\* run ends and its status is Completed, Error or Cancelled from then on.
C17_EventuallyTerminal ==
    \A t \in Tasks :
        (t \in DOMAIN analysis_progress)
        ~> [](run[t].pc = "done" /\ analysis_progress[t].status \in Terminal)

\* a cancelled run and a failed run have both ended
C17_Witness ==
    /\ DOMAIN analysis_progress = Tasks
    /\ \A t \in Tasks : run[t].pc = "done" /\ analysis_progress[t].status \in Terminal
    /\ cancelApplied # {} /\ scoreFailed # {}

\* C18: analysing an image content that was analysed before (its entry still
\* cached) is a cache hit whichever handle carries the image: no scoring call
\* is made and the tags of the first analysis are returned.
C18_SameContentHits ==
    pl_last.seen => (~pl_last.scored /\ pl_last.tags = pl_last.first)

\* the server's single-tile analysis, for comparison: an image whose result
\* is cached and unexpired is not scored again and gets the cached tags
C18_ServerContentKey ==
    \A c \in Contents \cup {FaintImage}, id \in TileIdArgs, ok \in BOOLEAN :
        CachedImages(<<c>>) # {}
        => LET a == analyze_tile(c, id, ok)
           IN  /\ ~a.scored /\ ~a.raised
               /\ a.result.tags = EntryOf(cache, GenerateKey(c)).value.tags

\* the sessions whose run is under way (entered analyze_batch, not ended)
Running == {t \in Tasks : run[t].pc \in {"sub", "scoring", "after"}}

\* C31: the start of another analysis never clears a cancellation requested
\* for a different session whose run is still under way: the flag that
\* session's scheduler polls stays set.
C31_StartKeepsCancel ==
    [][\A t \in Tasks : \A u \in Tasks \ {t} :
         (/\ t \in cancelApplied /\ t \in Running /\ cancel_requested
          /\ run[u].pc = "queued" /\ run'[u].pc # "queued")
         => cancel_requested']_vars

\* C34: when the scoring call of a sub-batch has returned, every image of
\* that sub-batch has a per-image entry in the (enabled) cache, the entry a
\* single-image analysis of that image looks up.
C34_SubBatchCached ==
    [][\A t \in Tasks :
         (/\ run[t].pc = "scoring" /\ run'[t].pc # "scoring" /\ t \notin scoreFailed'
          /\ enable_cache /\ max_cache_size >= run[t].batch_size)
         => \A j \in 1 .. Len(BatchOf(t)) :
               GenerateKey(BatchOf(t)[j]) \in KeysOf(cache')]_vars

\* ------------------------------------------------------ queries: properties
\* the tags an image carries: those the assignment gives its score vector
TagsOfImage(c) ==
    process_predictions(Predict(c), CONFIDENCE_THRESHOLD, tag_list, "list").tags
\* the two tag lists share a (category, subcategory) at or above the confidence
SharesTag(a, b, min_confidence) ==
    \E i \in 1 .. Len(a), j \in 1 .. Len(b) :
        /\ a[i].category = b[j].category /\ a[i].subcategory = b[j].subcategory
        /\ a[i].confidence >= min_confidence /\ b[j].confidence >= min_confidence
\* the k-th smallest member of a set of indices
KthOf(S, k) == CHOOSE i \in S : Cardinality({j \in S : j < i}) = k - 1
\* the members of a set of numbers in ascending order
Ascending(S) == [k \in 1 .. Cardinality(S) |-> KthOf(S, k)]

\* C21: the similarity query returns, ascending and each once, exactly the
\* indices of the candidates that share a tag with the source at or above
\* min_confidence on both sides, and never the index of a candidate that is
\* the source image itself.
C21_Similar ==
    (qy_in.op = "similar" /\ qy_out.done) =>
        /\ qy_out.raised = NoValue
        /\ qy_out.value =
            Ascending({i \in 0 .. (Len(qy_in.targets) - 1) :
                          /\ qy_in.targets[i + 1] # qy_in.source
                          /\ SharesTag(TagsOfImage(qy_in.source),
                                       TagsOfImage(qy_in.targets[i + 1]),
                                       qy_in.min_confidence)})
\* the comparison of the tag lists on its own (the loop of find_similar_tiles
\* over find_similar_tags, given the tags of the images): ascending, each
\* index once, exactly the candidates that share a tag at or above the
\* confidence on both sides, a candidate that is the source included
C21_TagComparison ==
    qy_in.op = "similar" =>
        SimilarByChunk(TagsOfImage(qy_in.source),
                       [k \in 1 .. Len(qy_in.targets) |-> TagsOfImage(qy_in.targets[k])],
                       qy_in.min_confidence, 0)
          = Ascending({i \in 0 .. (Len(qy_in.targets) - 1) :
                          SharesTag(TagsOfImage(qy_in.source),
                                    TagsOfImage(qy_in.targets[i + 1]),
                                    qy_in.min_confidence)})

\* the tiles of a statistics call whose tag list contains the full tag
TilesWith(tile_tags, f) ==
    {k \in 1 .. Len(tile_tags) : \E j \in 1 .. Len(tile_tags[k]) : FullTag(tile_tags[k][j]) = f}
\* the confidence a tile's list gives the full tag
ConfidenceIn(tags, f) ==
    tags[CHOOSE j \in 1 .. Len(tags) : FullTag(tags[j]) = f].confidence
RECURSIVE SumOver(_, _, _)
SumOver(tile_tags, K, f) ==
    IF K = {} THEN 0
    ELSE LET k == CHOOSE x \in K : TRUE
         IN  ConfidenceIn(tile_tags[k], f) + SumOver(tile_tags, K \ {k}, f)
AllFullTags == {ScenarioVocabulary[i] : i \in 1 .. Len(ScenarioVocabulary)}

C23_AddThenGet ==
    pl_last.op = "add_tags" =>
        LET got == get_tags(pl_tiles[pl_last.handle].ai_tags)
        IN  /\ Len(got) = Len(pl_last.tags)
            /\ \A k \in 1 .. Len(got) :
                  /\ got[k].category = pl_last.tags[k].category
                  /\ got[k].subcategory = pl_last.tags[k].subcategory
                  /\ got[k].confidence = pl_last.tags[k].confidence
            /\ \A g \in Handles \ {pl_last.handle} :
                  pl_tiles[g].ai_tags = pl_last.before[g]
C23_Witness ==
    /\ pl_last.op = "add_tags"
    /\ Len(pl_last.tags) = 2
    /\ Len(get_tags(pl_last.before[pl_last.handle])) = 1
    /\ \E g \in Handles \ {pl_last.handle} : get_tags(pl_tiles[g].ai_tags) # <<>>

\* C24: when the plugin's analyze_tile(tile) returns a tag list, the list in
\* the tile's ai_tags property equals it: same tags, same fields, same order.
C24_StoredEqualsReturned ==
    pl_last.op = "analyze_tile" => get_tags(pl_last.stored) = pl_last.tags
\* what does hold when the call scored the tile: the stored list has one tag
\* per returned tag, in order, with its category, subcategory and confidence
C24_StoredCarriesReturned ==
    (pl_last.op = "analyze_tile" /\ pl_last.scored) =>
        LET got == get_tags(pl_last.stored)
        IN  /\ Len(got) = Len(pl_last.tags)
            /\ \A k \in 1 .. Len(got) :
                  /\ got[k].category = pl_last.tags[k].category
                  /\ got[k].subcategory = pl_last.tags[k].subcategory
                  /\ got[k].confidence = pl_last.tags[k].confidence

\* ------------------------------------------------- tag assignment: properties
\* the indices (1-based) whose score exceeds the threshold
Qualifying(scores, threshold) == {i \in 1 .. Len(scores) : scores[i] > threshold}
\* the best-scoring index, the first one on ties
BestIndex(scores) ==
    CHOOSE i \in 1 .. Len(scores) :
        /\ \A j \in 1 .. Len(scores) : scores[j] <= scores[i]
        /\ \A j \in 1 .. (i - 1) : scores[j] < scores[i]

\* C19: the fixed-threshold assignment returns, in index order, exactly the
\* indices whose score exceeds the threshold; if there is none and the best
\* score exceeds half the threshold, the single best index (the first on
\* ties); otherwise no tag. Each tag carries the vocabulary entry of its
\* index and the raw score.
C19_FixedThreshold ==
    tg_out.done =>
        LET scores == tg_in.scores
            q == Qualifying(scores, tg_in.threshold)
            best == BestIndex(scores)
        IN  /\ tg_out.raised = NoValue
            /\ IF q # {}
               THEN /\ Len(tg_out.tags) = Cardinality(q)
                    /\ \A k \in 1 .. Cardinality(q) :
                          tg_out.tags[k] = TagAt(tg_in.vocab, KthOf(q, k), scores[KthOf(q, k)])
               ELSE IF 2 * scores[best] > tg_in.threshold
                    THEN tg_out.tags = <<TagAt(tg_in.vocab, best, scores[best])>>
                    ELSE tg_out.tags = <<>>

\* the same statement for score vectors held in a Python list
C19_FixedThresholdOnLists ==
    tg_in.kind = "list" => C19_FixedThreshold

\* C20: with the vocabulary [(terrain, water), (terrain, grass)] and
\* threshold 0.5, scores [0.9, 0.1] yield exactly [{terrain, water, 0.9}], and
\* scores [0.2, 0.1] yield exactly [{terrain, water, 0.2}] by the fallback.
C20_Scenario ==
    (tg_out.done /\ tg_in.vocab = ScenarioVocabulary /\ tg_in.threshold = 5) =>
        /\ tg_in.scores = <<9, 1>> =>
              tg_out.tags = <<[category |-> "terrain", subcategory |-> "water", confidence |-> 9]>>
        /\ tg_in.scores = <<2, 1>> =>
              tg_out.tags = <<[category |-> "terrain", subcategory |-> "water", confidence |-> 2]>>

\* C20 as the code has it: scores [0.9, 0.1] yield exactly
\* [{terrain, water, 0.9}]; scores [0.2, 0.1] yield no tag, because 0.2 does
\* not exceed half the threshold (0.25).
C20_ScenarioNoFallback ==
    (tg_out.done /\ tg_in.vocab = ScenarioVocabulary /\ tg_in.threshold = 5) =>
        /\ tg_in.scores = <<9, 1>> =>
              /\ tg_out.tags = <<[category |-> "terrain", subcategory |-> "water", confidence |-> 9]>>
              /\ tg_out.raised = NoValue
        /\ tg_in.scores = <<2, 1>> => tg_out.tags = <<>> /\ tg_out.raised = NoValue

\* the scenario's second score vector has been assigned
C20_Witness ==
    /\ tg_out.done /\ tg_in.vocab = ScenarioVocabulary /\ tg_in.threshold = 5
    /\ tg_in.scores = <<2, 1>>

====
